---- MODULE Spec2Model ----
(***************************************************************************)
(* A model of pdfwam: the table structure validator (PdfTblStruct), the    *)
(* structure element handler (PdfAWAMHandler.awamHandler), the structure   *)
(* tree walker (PdfStructureMixin.search / awam_dispatcher) and the result *)
(* map written by init / process_awam / runAllTests.                       *)
(*                                                                         *)
(* Conventions.                                                            *)
(*  - PDF objects are numbered 1..n; doc[o] is the dictionary (or scalar)  *)
(*    stored as object o.  Python's None is NoneRef.                       *)
(*  - Python "==" on two structure elements is dictionary (value)          *)
(*    equality: PyEq.  id(element) is the object number.                   *)
(*  - An operation that can raise returns a record with an exc field;      *)
(*    "none" means it returned normally.                                   *)
(*  - pdb.set_trace() (pdfAWAMHandler.py:105) is a debugger stop that      *)
(*    changes no program state: the statements after it run.               *)
(*  - The method names that differ between caller and callee in the        *)
(*    source (awamHandler.handler / awamHandler, initAWAM / init,          *)
(*    processAWAM / process_awam, run_all_tests / runAllTests,             *)
(*    hasExternalLinks / has_external_links, fetchExternalLinks /          *)
(*    get_external_links, getFormObject / get_form_object,                 *)
(*    fetchFormFields / fetch_form_fields, getPageLabels /                 *)
(*    get_page_labels) are taken to name the same method.                  *)
(***************************************************************************)
EXTENDS Integers, Sequences, FiniteSets, TLC

VARIABLES
    doc,     \* the PDF objects: object number -> dictionary
    op,      \* the operation performed last
    arg,     \* the element the last operation was called with
    ret,     \* what the last operation returned (-1: it raised)
    exc,     \* the exception the last operation raised, or "none"
    tbl,     \* a PdfTblStruct used directly
    hist,    \* the elements passed to tbl.add, or the tests run, so far
    h,       \* the PdfAWAMHandler object
    rd,      \* the reader (PdfStructureMixin / PdfWCAG) object
    stack,   \* the calls of search and awam_dispatcher in progress
    walk,    \* where runAllTests / process_awam is
    visited  \* the objects passed to the handler so far

vars == <<doc, op, arg, ret, exc, tbl, hist, h, rd, stack, walk, visited>>

(***************************************************************************)
(* Bounds                                                                  *)
(***************************************************************************)
MaxAdds == 4    \* add calls on one PdfTblStruct
MaxPage == 2    \* page numbers handed to setPage
MaxCalls == 4   \* awamHandler calls made directly on one handler
MaxDepth == 8   \* nested calls of search / awam_dispatcher before RecursionError
NElems == 3     \* structure elements of a document given to the walker

(***************************************************************************)
(* PDF objects                                                             *)
(***************************************************************************)
NoneRef == 0

NoKey == "<nokey>"

\* A resolved PDF object.  kind is its Python type: "dict" (DictionaryObject),
\* "arr" (ArrayObject, its entries in items), "num" (NumberObject, value n)
\* or "null" (NullObject).  For a dictionary, an absent key is NoKey, an
\* absent reference (/K, /Pg, /Obj) is 0; /Alt and /ActualText are recorded
\* by presence.  Every entry that holds an object names it by number.
DictObj ==
    [kind |-> "dict", S |-> NoKey, Pg |-> 0, K |-> 0, items |-> <<>>, n |-> 0,
     Alt |-> FALSE, ActualText |-> FALSE, Type |-> NoKey, Obj |-> 0]

Elem(s, pg, k) == [DictObj EXCEPT !.S = s, !.Pg = pg, !.K = k]
FigureElem(pg, alt, atext, k) ==
    [Elem("Figure", pg, k) EXCEPT !.Alt = alt, !.ActualText = atext]
ArrObj(items) == [DictObj EXCEPT !.kind = "arr", !.items = items]
NumObj(n) == [DictObj EXCEPT !.kind = "num", !.n = n]
NullObj == [DictObj EXCEPT !.kind = "null"]
\* A marked-content reference dictionary /Type /OBJR /Obj o
ObjrObj(o) == [DictObj EXCEPT !.Type = "OBJR", !.Obj = o]

\* element == other on two resolved objects: dict equality compares entries.
PyEq(a, b) ==
    IF a = NoneRef \/ b = NoneRef THEN a = b ELSE doc[a] = doc[b]

\* element['/S']
TypeOf(e) == doc[e].S

\* seq.index(x) succeeds: some entry equals x
PyIn(x, seq) == \E i \in 1..Len(seq) : PyEq(seq[i], x)

(***************************************************************************)
(* The page tree.  Pages node 100 is the root with kids 101 (a Pages node  *)
(* holding pages 111 and 112) and page 113.  Page 114 names 101 as parent  *)
(* without being one of its kids; page 115 has no /Parent.  XObject is the *)
(* page's /Resources /XObject dictionary: its entries' /Subtype and        *)
(* /BitsPerComponent (NoKey, 0: absent); Resources is "xobj" when it is    *)
(* there, "<nores>" without /Resources, "<noxobj>" without /XObject.       *)
(***************************************************************************)
PageNode(type, parent, kids, res, xobj) ==
    [Type |-> type, Parent |-> parent, Kids |-> kids, Resources |-> res,
     XObject |-> xobj]

XImg(sub, bits) == [Subtype |-> sub, Bits |-> bits]

PageTree ==
    (100 :> PageNode("Pages", 0, <<101, 113>>, "<nores>", <<>>)) @@
    (101 :> PageNode("Pages", 100, <<111, 112>>, "<nores>", <<>>)) @@
    (111 :> PageNode("Page", 101, <<>>, "xobj", <<XImg("Image", 8)>>)) @@
    (112 :> PageNode("Page", 101, <<>>, "xobj", <<XImg("Image", 1)>>)) @@
    (113 :> PageNode("Page", 100, <<>>, "<noxobj>", <<>>)) @@
    (114 :> PageNode("Page", 101, <<>>, "xobj", <<XImg("Form", 0), XImg("Image", 0)>>)) @@
    (115 :> PageNode("Page", 0, <<>>, "<nores>", <<>>))

RECURSIVE CollectPages(_)
\* getFlattenedPages, the while loop: the kids of every /Pages ancestor,
\* nearest first.
CollectPages(parent) ==
    IF PageTree[parent].Type # "Pages" THEN <<>>
    ELSE PageTree[parent].Kids \o
         (IF PageTree[parent].Parent = 0 THEN <<>>
          ELSE CollectPages(PageTree[parent].Parent))

\* PdfAWAMHandler.getFlattenedPages(pgelem)
GetFlattenedPages(pg) ==
    IF PageTree[pg].Parent = 0 THEN [exc |-> "KeyError", pages |-> <<>>]
    ELSE [exc |-> "none", pages |-> CollectPages(PageTree[pg].Parent)]

\* pages.index(pg): the first position holding pg, 0 for ValueError
IndexOf(pages, pg) ==
    IF \E i \in 1..Len(pages) : pages[i] = pg
    THEN CHOOSE i \in 1..Len(pages) :
            pages[i] = pg /\ \A j \in 1..(i - 1) : pages[j] # pg
    ELSE 0

(***************************************************************************)
(* PdfTblStruct                                                            *)
(***************************************************************************)
TableTags == {"Table", "TR", "TH", "TD"}

typedict == [t \in TableTags |->
    CASE t = "Table" -> ""
      [] t = "TR" -> "Table"
      [] t = "TH" -> "TR"
      [] t = "TD" -> "TR"]

childdict == [t \in TableTags |->
    CASE t = "Table" -> {"TR"}
      [] t = "TR" -> {"TH", "TD"}
      [] t = "TH" -> {}
      [] t = "TD" -> {}]

\* PdfTblStruct.init(root)
TblInit(root) ==
    [current |-> root, parent |-> NoneRef, prev |-> NoneRef,
     level |-> 0, invalid |-> 0, page |-> 0]

\* PdfTblStruct.__init__
TblNew == [TblInit(NoneRef) EXCEPT !.current = NoneRef]

TblSetPage(t, pgnum) == [t EXCEPT !.page = pgnum]

TblIsPageSet(t) == t.page > 0

Returned(t, r) == [t |-> t, ret |-> r, exc |-> "none"]
Raised(t, e) == [t |-> t, ret |-> -1, exc |-> e]

\* A plausible slip in the level bookkeeping: an ascent (the previous element
\* is a child type of the new one) leaves the level alone.
TblClassify_AscentKeepsLevel(t1, typ) ==
    LET prev_type == TypeOf(t1.prev) IN
    IF prev_type = typedict[typ]
      THEN Returned([t1 EXCEPT !.level = @ + 1, !.parent = t1.prev], 1)
    ELSE IF prev_type = typ \/ prev_type \in childdict[typ]
      THEN Returned(t1, 1)
    ELSE Raised([t1 EXCEPT !.invalid = 1], "PdfTblStructInvalidException")

\* A plausible slip: only the first descent, from the Table, is counted.
TblClassify_DescentOnlyFromTable(t1, typ) ==
    LET prev_type == TypeOf(t1.prev) IN
    IF prev_type = typedict[typ]
      THEN Returned([t1 EXCEPT !.level = IF prev_type = "Table" THEN @ + 1 ELSE @,
                               !.parent = t1.prev], 1)
    ELSE IF prev_type = typ
      THEN Returned(t1, 1)
    ELSE IF prev_type \in childdict[typ]
      THEN Returned([t1 EXCEPT !.level = @ - 1], 1)
    ELSE Raised([t1 EXCEPT !.invalid = 1], "PdfTblStructInvalidException")

\* A plausible slip: a further element of the same type counts as a descent.
TblClassify_SameTypeDescends(t1, typ) ==
    LET prev_type == TypeOf(t1.prev) IN
    IF prev_type = typedict[typ] \/ prev_type = typ
      THEN Returned([t1 EXCEPT !.level = @ + 1, !.parent = t1.prev], 1)
    ELSE IF prev_type \in childdict[typ]
      THEN Returned([t1 EXCEPT !.level = @ - 1], 1)
    ELSE Raised([t1 EXCEPT !.invalid = 1], "PdfTblStructInvalidException")

\* PdfTblStruct.add, lines 88-110: prev and current are already advanced
\* (t1); compare the previous element's type with the new element's.
TblClassify(t1, typ) ==
    LET parent_type == typedict[typ]
        child_types == childdict[typ]
        prev_type == TypeOf(t1.prev)
    IN  IF prev_type = parent_type
          THEN Returned([t1 EXCEPT !.level = @ + 1, !.parent = t1.prev], 1)
        ELSE IF prev_type = typ
          THEN Returned(t1, 1)
        ELSE IF prev_type \in child_types
          THEN Returned([t1 EXCEPT !.level = @ - 1], 1)
        ELSE Raised([t1 EXCEPT !.invalid = 1], "PdfTblStructInvalidException")

\* PdfTblStruct.add, lines 63-110: the validator is not invalid.
TblAddValid(t, e) ==
    IF TypeOf(e) = NoKey THEN Raised(t, "KeyError")
    ELSE IF TypeOf(e) \notin DOMAIN typedict THEN Returned(t, 0)
    ELSE IF TypeOf(e) = "Table" THEN Returned(TblInit(e), 0)
    ELSE IF PyEq(e, t.prev) THEN Returned(t, 0)
    ELSE
      LET t1 == [t EXCEPT !.prev = t.current, !.current = e] IN
      \* self.prev['/S'] on None
      IF t1.prev = NoneRef THEN Raised(t1, "TypeError")
      ELSE TblClassify(t1, TypeOf(e))

\* A plausible slip: a Table element re-initialises an invalid validator.
TblAdd_TableClearsInvalid(t, e) ==
    IF t.invalid # 0 /\ TypeOf(e) # "Table" THEN Returned(t, 0)
    ELSE TblAddValid(t, e)

\* PdfTblStruct.add(elem): the new object state, the return value and the
\* exception raised.
TblAdd(t, e) ==
    IF t.invalid # 0 THEN Returned(t, 0)
    ELSE TblAddValid(t, e)

(***************************************************************************)
(* PdfAWAMHandler                                                          *)
(***************************************************************************)
EmptyFn == [x \in {} |-> 0]

\* dict[key] = value
Put(f, key, val) == [x \in DOMAIN f \cup {key} |-> IF x = key THEN val ELSE f[x]]

\* A value of the result map: a location map {(page, count): status} or a
\* scalar.
LocMap(m) == [kind |-> "map", map |-> m, val |-> ""]
Scalar(v) == [kind |-> "scalar", map |-> EmptyFn, val |-> v]

AltId == "EIAO.A.10.1.1.4.PDF.1.1"
ActualTextId == "EIAO.A.10.1.1.4.PDF.2.1"
FormId == "EIAO.A.15.2.1.4.PDF.4.1"

\* roleMap is None, or the /RoleMap dictionary
NoRoleMap == [isNone |-> TRUE, map |-> EmptyFn]
RoleMap(m) == [isNone |-> FALSE, map |-> m]

\* PdfAWAMHandler.__init__
HandlerNew(roleMap, validateImages, ignoreSingleBitImgs) ==
    [resultMap |-> EmptyFn, elementCount |-> 0, line |-> 0,
     roleMap |-> roleMap, nFormEls |-> 0, langcheck |-> FALSE,
     figureEls |-> <<>>, tableStruct |-> NoneRef,
     tableStructDict |-> EmptyFn, linkAnnots |-> EmptyFn,
     failedImgs |-> EmptyFn, validateImgs |-> validateImages,
     ignore1bitimgs |-> ignoreSingleBitImgs]

HOk(hh) == [h |-> hh, exc |-> "none", early |-> FALSE]
HEarly(hh) == [h |-> hh, exc |-> "none", early |-> TRUE]
HRaise(hh, e) == [h |-> hh, exc |-> e, early |-> FALSE]

\* self.resultMap[awamId][(page, count)] = value
LocPut(hh, awamId, page, value) ==
    IF hh.resultMap[awamId].kind # "map" THEN HRaise(hh, "TypeError")
    ELSE HOk([hh EXCEPT !.resultMap =
                Put(@, awamId,
                    LocMap(Put(@[awamId].map, <<page, hh.elementCount>>, value)))])

HasKey(e, dictKey) ==
    CASE dictKey = "Alt" -> doc[e].Alt
      [] dictKey = "ActualText" -> doc[e].ActualText

\* check, lines 162-175, the entry for awamId being there
CheckWrite(h1, r, awamId, Pass, Fail, noAdd, w) ==
    IF noAdd THEN [h |-> h1, exc |-> "none", r |-> r]
    ELSE [h |-> w.h, exc |-> w.exc, r |-> r]

\* PdfAWAMHandler.check(element, awamId, dictKey, Pass, Fail, noAdd) with
\* Pass and Fail given: the handler after the call and the value returned.
CheckEntry(h1, e, awamId, dictKey, Pass, Fail, noAdd) ==
    CheckWrite(h1, IF HasKey(e, dictKey) THEN 1 ELSE 0, awamId, Pass, Fail, noAdd,
               LocPut(h1, awamId, h1.line,
                      IF HasKey(e, dictKey) THEN Pass ELSE Fail))

Check(hh, e, awamId, dictKey, Pass, Fail, noAdd) ==
    CheckEntry(IF awamId \in DOMAIN hh.resultMap THEN hh
               ELSE [hh EXCEPT !.resultMap = Put(@, awamId, LocMap(EmptyFn))],
               e, awamId, dictKey, Pass, Fail, noAdd)

\* The /Link branch, lines 205-240: every /OBJR kid's /Obj is registered once
\* under its identity; every failure is swallowed.
RECURSIVE LinkKids(_, _, _, _)
LinkKids(annots, kids, i, e) ==
    IF i > Len(kids) THEN annots
    ELSE LET kid == kids[i]
             hit == /\ doc[kid].kind = "dict"
                    /\ doc[kid].Type = "OBJR"
                    /\ doc[kid].Obj # 0
                    /\ doc[kid].Obj \notin DOMAIN annots
         IN  LinkKids(IF hit THEN Put(annots, doc[kid].Obj, <<doc[kid].Obj, e>>)
                      ELSE annots,
                      kids, i + 1, e)

HLink(hh, e) ==
    IF doc[e].K = 0 THEN HOk(hh)
    ELSE LET kids == IF doc[doc[e].K].kind = "arr" THEN doc[doc[e].K].items
                     ELSE <<doc[e].K>>
         IN  HOk([hh EXCEPT !.linkAnnots = LinkKids(@, kids, 1, e)])

\* Lines 243-249: a Table element selects its PdfTblStruct, made on the
\* first visit.
HSelectTable(hh, e) ==
    IF TypeOf(e) # "Table" THEN hh
    ELSE IF e \in DOMAIN hh.tableStructDict THEN [hh EXCEPT !.tableStruct = e]
    ELSE [hh EXCEPT !.tableStruct = e,
                    !.tableStructDict = Put(@, e, TblNew)]

\* Lines 257-263: pgnum = pages.index(pg) + 1, set unless a lookup fails
HTablePageSet(hh, pg, fp) ==
    IF fp.exc # "none" \/ IndexOf(fp.pages, pg) = 0 THEN HOk(hh)
    ELSE HOk([hh EXCEPT !.tableStructDict[hh.tableStruct] =
                            TblSetPage(@, IndexOf(fp.pages, pg))])

\* Lines 251-265: the page of the table is looked up once.
HTablePage(hh, e) ==
    IF doc[e].Pg = 0 THEN HOk(hh)
    ELSE IF hh.tableStruct = NoneRef THEN HRaise(hh, "AttributeError")
    ELSE IF TblIsPageSet(hh.tableStructDict[hh.tableStruct]) THEN HOk(hh)
    ELSE HTablePageSet(hh, doc[e].Pg, GetFlattenedPages(doc[e].Pg))

\* Lines 268-271, after add: PdfTblStructInvalidException is passed over
HTableAdded(hh, r) ==
    IF r.exc \in {"none", "PdfTblStructInvalidException"}
    THEN HOk([hh EXCEPT !.tableStructDict[hh.tableStruct] = r.t])
    ELSE HRaise([hh EXCEPT !.tableStructDict[hh.tableStruct] = r.t], r.exc)

\* Lines 268-271: self.tableStruct.add(element)
HTableAdd(hh, e) ==
    IF hh.tableStruct = NoneRef THEN HRaise(hh, "AttributeError")
    ELSE HTableAdded(hh, TblAdd(hh.tableStructDict[hh.tableStruct], e))

HTableThen(p, e) == IF p.exc # "none" THEN p ELSE HTableAdd(p.h, e)

\* The Table / TR / TH / TD branch, lines 242-271
HTable(hh, e) == HTableThen(HTablePage(HSelectTable(hh, e), e), e)

\* The /Form branch, lines 274-283: element['/K']['/Obj']
HForm(hh, e) ==
    IF doc[e].K # 0 /\ doc[doc[e].K].kind # "dict" THEN HRaise(hh, "TypeError")
    ELSE IF doc[e].K = 0 \/ doc[doc[e].K].Obj = 0
    THEN HOk([hh EXCEPT !.resultMap = Put(@, FormId, LocMap(<<0, 1>> :> 0))])
    ELSE HOk([hh EXCEPT !.nFormEls = @ + 1])

\* Lines 328-351, the page is found at position idx: /Resources and /XObject
\* of the page, the images among its entries, the 1-bit rule.
FigResources(hh, pg, idx) ==
    IF PageTree[pg].Resources # "xobj"
    THEN [pgnum |-> idx, early |-> FALSE, exc |-> "none"]
    ELSE IF \E i \in 1..Len(PageTree[pg].XObject) :
                PageTree[pg].XObject[i].Subtype = NoKey
    \* None in ('/Image')
    THEN [pgnum |-> idx, early |-> FALSE, exc |-> "TypeError"]
    ELSE [pgnum |-> idx,
          early |->
            /\ hh.ignore1bitimgs
            /\ \E i \in 1..Len(PageTree[pg].XObject) :
                    PageTree[pg].XObject[i].Subtype = "Image"
            /\ \A i \in 1..Len(PageTree[pg].XObject) :
                    PageTree[pg].XObject[i].Subtype = "Image"
                        => PageTree[pg].XObject[i].Bits = 1,
          exc |-> "none"]

\* Lines 324-352: pgnum counts the flattened pages up to the figure's page
FigLocate(hh, pg, fp) ==
    IF fp.exc # "none" THEN [pgnum |-> 0, early |-> FALSE, exc |-> "none"]
    ELSE IF IndexOf(fp.pages, pg) = 0
    THEN [pgnum |-> Len(fp.pages) + 1, early |-> FALSE, exc |-> "none"]
    ELSE FigResources(hh, pg, IndexOf(fp.pages, pg))

\* Lines 315-354: the page of the figure, whether the handler returns early
\* and the exception that leaves the block.
FigValidate(hh, e) ==
    IF doc[e].Pg = 0 THEN [pgnum |-> 0, early |-> FALSE, exc |-> "none"]
    ELSE FigLocate(hh, doc[e].Pg, GetFlattenedPages(doc[e].Pg))

\* failedImgs[pgnum].append(element), when neither text is there
FailImg(hh, failed, pgnum, e) ==
    IF ~failed THEN hh
    ELSE [hh EXCEPT !.failedImgs =
            Put(@, pgnum,
                IF pgnum \in DOMAIN @ THEN Append(@[pgnum], e) ELSE <<e>>)]

\* Line 377: self.figureEls.append(element)
HFigureDone(hh, e) == HOk([hh EXCEPT !.figureEls = Append(@, e)])

\* Lines 363-368, after the second write
HFigureWritten(r1, r2, w2, pgnum, e) ==
    IF w2.exc # "none" THEN w2
    ELSE HFigureDone(FailImg(w2.h, r1 = 0 /\ r2 = 0, pgnum, e), e)

\* Lines 362-363: the Alt result goes under the ActualText identifier and
\* the ActualText result under the Alt identifier
HFigureWrite(r1, r2, w1, pgnum, e) ==
    IF w1.exc # "none" THEN w1
    ELSE HFigureWritten(r1, r2, LocPut(w1.h, AltId, pgnum, r2), pgnum, e)

\* Lines 315-368: cross-validation is on
HFigureValidated(r1, r2, hh, v, e) ==
    IF v.exc # "none" THEN HRaise(hh, v.exc)
    ELSE IF v.early THEN HEarly(hh)
    ELSE HFigureWrite(r1, r2, LocPut(hh, ActualTextId, v.pgnum, r1), v.pgnum, e)

\* Lines 313-377, after both checks
HFigureChecked(r1, c2, e) ==
    IF c2.exc # "none" THEN HRaise(c2.h, c2.exc)
    ELSE IF ~c2.h.validateImgs
    THEN HFigureDone(FailImg(c2.h, r1 = 0 /\ c2.r = 0, 0, e), e)
    ELSE HFigureValidated(r1, c2.r, c2.h, FigValidate(c2.h, e), e)

\* Lines 310-311: r2 = self.check(... "/ActualText" ...)
HFigureCheck2(c1, e) ==
    IF c1.exc # "none" THEN HRaise(c1.h, c1.exc)
    ELSE HFigureChecked(c1.r,
            Check(c1.h, e, ActualTextId, "ActualText", 1, 0, c1.h.validateImgs), e)

\* The /Figure branch, lines 297-377
HFigure(hh, e) ==
    IF PyIn(e, hh.figureEls) THEN HOk(hh)
    ELSE HFigureCheck2(Check(hh, e, AltId, "Alt", 1, 0, hh.validateImgs), e)

HRoleChecked(c2, e) ==
    IF c2.exc # "none" THEN c2.h
    ELSE [c2.h EXCEPT !.figureEls = Append(@, e)]

HRoleCheck2(c1, e) ==
    IF c1.exc # "none" THEN c1.h
    ELSE HRoleChecked(Check(c1.h, e, ActualTextId, "ActualText", 1, 0, FALSE), e)

\* Lines 379-394: an element whose type the role map sends to /Figure.  All
\* failures are swallowed.
HRole(hh, e) ==
    IF hh.roleMap.isNone THEN hh
    ELSE IF TypeOf(e) \notin DOMAIN hh.roleMap.map THEN hh
    ELSE IF hh.roleMap.map[TypeOf(e)] # "Figure" THEN hh
    ELSE IF PyIn(e, hh.figureEls) THEN hh
    ELSE HRoleCheck2(Check(hh, e, AltId, "Alt", 1, 0, FALSE), e)

\* The if / elif chain on the structure type, lines 205-377
HBranch(hh, e) ==
    IF TypeOf(e) = "Link" THEN HLink(hh, e)
    ELSE IF TypeOf(e) \in DOMAIN typedict THEN HTable(hh, e)
    ELSE IF TypeOf(e) = "Form" THEN HForm(hh, e)
    ELSE IF TypeOf(e) = "Document" THEN HOk(hh)
    ELSE IF TypeOf(e) = "Figure" THEN HFigure(hh, e)
    ELSE HOk(hh)

\* Lines 379-394 run unless the chain raised or returned
HAfterBranch(b, e) ==
    IF b.exc # "none" \/ b.early THEN b ELSE HOk(HRole(b.h, e))

\* PdfAWAMHandler.awamHandler(element): the handler after the call and the
\* exception that leaves it.
AwamHandler(hh, e) ==
    IF doc[e].kind # "dict" \/ TypeOf(e) = NoKey
    THEN HOk([hh EXCEPT !.elementCount = @ + 1])
    ELSE HAfterBranch(HBranch([hh EXCEPT !.elementCount = @ + 1], e), e)

(***************************************************************************)
(* PdfStructureMixin: the structure tree walker                            *)
(*                                                                         *)
(* search and awam_dispatcher call each other; stack holds their frames.   *)
(* A frame's pc is where it continues when the call it made returns.  An   *)
(* exception in flight is in exc: it unwinds the stack until a frame       *)
(* catches it.  A call that would nest deeper than MaxDepth raises         *)
(* RecursionError at the call.                                             *)
(***************************************************************************)
\* The reader's fields used by process_awam and the walker: structroot is
\* "none" (None), "empty" (a dictionary without entries) or "dict", root is
\* the resolved structroot['/K'] (0: no /K), numstree the numbers tree, page
\* the page where an error was seen.
ReaderNew(structroot, root, numstree) ==
    [structroot |-> structroot, root |-> root, numstree |-> numstree,
     page |-> 0]

Frame(fn, node, pc, i, j) == [fn |-> fn, node |-> node, pc |-> pc, i |-> i, j |-> j]
SearchFrame(o) == Frame("search", o, "start", 0, 0)
DispatchFrame(o) == Frame("dispatch", o, "start", 0, 0)

Top == stack[Len(stack)]
Below == SubSeq(stack, 1, Len(stack) - 1)

\* The entries a kids value is iterated as: an array's entries, else itself
KidList(k) == IF doc[k].kind = "arr" THEN doc[k].items ELSE <<k>>

\* The top frame returns
Pop ==
    /\ stack' = Below
    /\ exc' = "none"

\* The top frame raises e
PopRaise(e) ==
    /\ stack' = Below
    /\ exc' = e

\* The top frame goes on at cont without calling
Goto(cont) ==
    /\ stack' = Append(Below, cont)
    /\ exc' = "none"

\* The top frame calls callee and goes on at cont when it returns
Call(cont, callee) ==
    IF Len(stack) >= MaxDepth
    THEN /\ stack' = Append(Below, cont)
         /\ exc' = "RecursionError"
    ELSE /\ stack' = Append(Append(Below, cont), callee)
         /\ exc' = "none"

\* One step of search(tree), lines 404-454
SearchStep ==
    /\ walk = "search" /\ exc = "none" /\ stack # <<>>
    /\ Top.fn = "search"
    /\ LET f == Top
           o == doc[f.node]
       IN  CASE f.pc = "start" ->
                  \* lines 408-419, 450-452: by the type of tree
                  CASE o.kind = "num" -> Pop
                    [] o.kind = "dict" ->
                         Call([f EXCEPT !.pc = "afterDisp"], DispatchFrame(f.node))
                    [] o.kind = "arr" -> Goto([f EXCEPT !.pc = "item", !.i = 1])
                    [] OTHER -> PopRaise("PdfStructureError")
             [] f.pc = "afterDisp" ->
                  \* lines 414-417: search(tree['/K']), KeyError passed over
                  IF o.K = 0 THEN Pop
                  ELSE Call([f EXCEPT !.pc = "ret"], SearchFrame(o.K))
             [] f.pc = "ret" -> Pop
             [] f.pc = "item" ->
                  \* lines 420-422: dispatch the next item of the array
                  IF f.i > Len(o.items) THEN Pop
                  ELSE Call([f EXCEPT !.pc = "kids"], DispatchFrame(o.items[f.i]))
             [] f.pc = "kids" ->
                  \* lines 424-439: l = item_obj['/K'], made a list
                  LET item == doc[o.items[f.i]] IN
                  IF item.kind # "dict" \/ item.K = 0
                  THEN Goto([f EXCEPT !.pc = "item", !.i = @ + 1])
                  ELSE Goto([f EXCEPT !.pc = "kid", !.j = 1])
             [] f.pc = "kid" ->
                  \* lines 441-449: a kid that is a dictionary is dispatched;
                  \* type(kid) is (int, NumberObject) is never true
                  LET l == KidList(doc[o.items[f.i]].K) IN
                  IF f.j > Len(l)
                  THEN Goto([f EXCEPT !.pc = "item", !.i = @ + 1])
                  ELSE IF doc[l[f.j]].kind = "dict"
                  THEN Call([f EXCEPT !.j = @ + 1], DispatchFrame(l[f.j]))
                  ELSE Goto([f EXCEPT !.j = @ + 1])
    /\ UNCHANGED <<doc, op, arg, ret, tbl, hist, h, rd, walk, visited>>

\* awam_dispatcher(item), lines 368-400, up to the kids loop: r is what
\* the handler does with the item.
DispatchStart(f, o, r) ==
    IF o.kind = "num" THEN
        /\ h' = r.h /\ visited' = visited \cup {f.node} /\ Pop
    ELSE IF o.kind # "dict" THEN
        /\ UNCHANGED <<h, visited>> /\ PopRaise("PdfStructureError")
    ELSE IF o.S = NoKey THEN
        /\ UNCHANGED <<h, visited>> /\ Pop
    ELSE
        /\ h' = r.h
        /\ visited' = visited \cup {f.node}
        /\ IF r.exc = "KeyError" THEN Pop
           ELSE IF r.exc # "none" THEN PopRaise(r.exc)
           ELSE IF o.K # 0 /\ doc[o.K].kind = "arr"
           THEN Goto([f EXCEPT !.pc = "loop", !.i = 1])
           \* iterating a dictionary's keys or a number reaches no element
           ELSE Pop

\* Lines 380-391: search(k.get_object()) for the next kid
DispatchLoop(f, o) ==
    /\ UNCHANGED <<h, visited>>
    /\ IF f.i > Len(doc[o.K].items) THEN Pop
       ELSE Call([f EXCEPT !.i = @ + 1], SearchFrame(doc[o.K].items[f.i]))

\* One step of awam_dispatcher(item), lines 365-402
DispatchStep ==
    /\ walk = "search" /\ exc = "none" /\ stack # <<>>
    /\ Top.fn = "dispatch"
    /\ IF Top.pc = "start"
       THEN DispatchStart(Top, doc[Top.node], AwamHandler(h, Top.node))
       ELSE DispatchLoop(Top, doc[Top.node])
    /\ UNCHANGED <<doc, op, arg, ret, tbl, hist, rd, walk>>

\* An exception reaches the frame that made the call: the kids loop of
\* awam_dispatcher passes over every exception (lines 390-391), search
\* passes over a KeyError of search(tree['/K']) (lines 416-417); any other
\* frame is left.
Unwind ==
    /\ walk = "search" /\ exc # "none" /\ stack # <<>>
    /\ IF Top.fn = "dispatch" \/ (Top.pc = "ret" /\ exc = "KeyError")
       THEN /\ exc' = "none"
            /\ stack' = stack
       ELSE /\ exc' = exc
            /\ stack' = Below
    /\ UNCHANGED <<doc, op, arg, ret, tbl, hist, h, rd, walk, visited>>

\* search(structroot['/K']) is over, lines 347-354: process_awam passes
\* over a KeyError and lets every other exception out.
SearchEnd ==
    /\ walk = "search" /\ stack = <<>>
    /\ walk' = IF exc \in {"none", "KeyError"} THEN "returned" ELSE "raised"
    /\ UNCHANGED <<doc, op, arg, ret, exc, tbl, hist, h, rd, stack, visited>>

WalkNext == SearchStep \/ DispatchStep \/ Unwind \/ SearchEnd

(***************************************************************************)
(* A PdfTblStruct driven directly                                          *)
(***************************************************************************)
\* The elements offered to add: two tables, two rows, a header cell, three
\* data cells of which 7 and 8 are equal as dictionaries, and a paragraph.
\* Entry /K of element i names object 10 + i, which sets the elements apart.
TblPool ==
    (1 :> Elem("Table", 0, 11)) @@ (2 :> Elem("Table", 0, 12)) @@
    (3 :> Elem("TR", 0, 13))    @@ (4 :> Elem("TR", 0, 14)) @@
    (5 :> Elem("TH", 0, 15))    @@ (6 :> Elem("TD", 0, 16)) @@
    (7 :> Elem("TD", 0, 0))     @@ (8 :> Elem("TD", 0, 0)) @@
    (9 :> Elem("P", 0, 19))

TblSpecInit ==
    /\ doc = TblPool
    /\ op = "new"
    /\ arg = NoneRef
    /\ ret = 0
    /\ exc = "none"
    /\ tbl = TblNew
    /\ hist = <<>>
    /\ h = HandlerNew(NoRoleMap, FALSE, FALSE)
    /\ rd = ReaderNew("none", 0, EmptyFn)
    /\ stack = <<>>
    /\ walk = "idle"
    /\ visited = {}

Add(e) ==
    /\ Len(hist) < MaxAdds
    /\ LET r == TblAdd(tbl, e) IN
        /\ tbl' = r.t
        /\ ret' = r.ret
        /\ exc' = r.exc
    /\ op' = "add"
    /\ arg' = e
    /\ hist' = Append(hist, e)
    /\ UNCHANGED <<doc, h, rd, stack, walk, visited>>

SetPage(p) ==
    /\ op # "new"
    /\ tbl' = TblSetPage(tbl, p)
    /\ op' = "setPage"
    /\ arg' = NoneRef
    /\ ret' = 0
    /\ exc' = "none"
    /\ UNCHANGED <<doc, hist, h, rd, stack, walk, visited>>

TblNext ==
    \/ \E e \in DOMAIN doc : Add(e)
    \/ \E p \in 1..MaxPage : SetPage(p)

SpecTbl == TblSpecInit /\ [][TblNext]_vars

(***************************************************************************)
(* A PdfAWAMHandler driven directly: awamHandler called on the elements of *)
(* a document in any order, the same element any number of times.          *)
(***************************************************************************)
\* Two tables, rows and cells on different pages, forms and figures.
HandlerPool ==
    (1 :> Elem("Table", 111, 11)) @@ (2 :> Elem("Table", 0, 12)) @@
    (3 :> Elem("TR", 111, 13))    @@ (4 :> Elem("TR", 112, 14)) @@
    (5 :> Elem("TH", 0, 15))      @@ (6 :> Elem("TD", 114, 16)) @@
    (7 :> Elem("TD", 115, 0))     @@
    (8 :> Elem("Form", 0, 18))    @@ (9 :> Elem("Form", 0, 0)) @@
    (10 :> FigureElem(111, FALSE, FALSE, 0)) @@
    (18 :> ObjrObj(19)) @@ (19 :> DictObj)

HandlerElems == {o \in DOMAIN doc : doc[o].S # NoKey}

HandlerSpecInit ==
    /\ doc = HandlerPool
    /\ op = "new"
    /\ arg = NoneRef
    /\ ret = 0
    /\ exc = "none"
    /\ tbl = TblNew
    /\ hist = <<>>
    /\ h = HandlerNew(NoRoleMap, FALSE, FALSE)
    /\ rd = ReaderNew("none", 0, EmptyFn)
    /\ stack = <<>>
    /\ walk = "idle"
    /\ visited = {}

Handle(e) ==
    /\ h.elementCount < MaxCalls
    /\ LET r == AwamHandler(h, e) IN
        /\ h' = r.h
        /\ exc' = r.exc
    /\ op' = "awamHandler"
    /\ arg' = e
    /\ ret' = 0
    /\ UNCHANGED <<doc, tbl, hist, rd, stack, walk, visited>>

HandlerNext == \E e \in HandlerElems : Handle(e)

SpecHandler == HandlerSpecInit /\ [][HandlerNext]_vars

(***************************************************************************)
(* The walker on every small structure tree of NElems elements, the        *)
(* integer 5 (object 21) and null (object 22).  The first element is of    *)
(* type /P, /TR or /Form, the others of type /P.  /K of an element is      *)
(* absent, one kid, or an array (object 10 + e) of one kid; the structure  *)
(* root's /K is one element or an array (object 30) of one or two kids.    *)
(* The numbers tree maps 5 to the last element.                            *)
(***************************************************************************)
WElems == 1..NElems
WKids == WElems \cup {21, 22}

KShape(t, items) == [t |-> t, items |-> items]

KShapes ==
    {KShape("none", <<>>)}
      \cup {KShape("one", <<x>>) : x \in WKids}
      \cup {KShape("arr", <<x>>) : x \in WKids}

RootShapes ==
    {KShape("one", <<1>>), KShape("arr", <<1>>)}
      \cup {KShape("arr", <<x, 1>>) : x \in {2, 22}}

FirstTypes == {"P", "TR", "Form"}

\* /K of an object whose kids have the given shape and whose array, if any,
\* is stored as object a
KRef(shape, a) ==
    CASE shape.t = "none" -> 0
      [] shape.t = "one" -> shape.items[1]
      [] shape.t = "arr" -> a

WalkDoc(shapes, rootShape, first) ==
    [o \in WElems \cup {21, 22, 30} \cup {10 + e : e \in WElems} |->
        CASE o \in WElems -> Elem(IF o = 1 THEN first ELSE "P", 0,
                                  KRef(shapes[o], 10 + o))
          [] o = 21 -> NumObj(5)
          [] o = 22 -> NullObj
          [] o = 30 -> ArrObj(rootShape.items)
          [] OTHER -> ArrObj(shapes[o - 10].items)]

\* process_awam has reached search(structroot['/K']), line 347
WalkSpecInit ==
    /\ \E shapes \in [WElems -> KShapes], rootShape \in RootShapes,
          first \in FirstTypes :
        /\ doc = WalkDoc(shapes, rootShape, first)
        /\ rd = ReaderNew("dict", KRef(rootShape, 30), 5 :> NElems)
        /\ stack = <<SearchFrame(KRef(rootShape, 30))>>
    /\ op = "process_awam"
    /\ arg = NoneRef
    /\ ret = 0
    /\ exc = "none"
    /\ tbl = TblNew
    /\ hist = <<>>
    /\ h = HandlerNew(NoRoleMap, FALSE, FALSE)
    /\ walk = "search"
    /\ visited = {}

SpecWalk == WalkSpecInit /\ [][WalkNext]_vars

(***************************************************************************)
(* runAllTests on one document: init(), process_awam() with the walk of    *)
(* the structure tree, then the tests.  walk is the position in            *)
(* runAllTests, hist the tests run so far.  What the code reads from parts *)
(* of the document that are not modelled (title, /Lang, /Encrypt, the      *)
(* outlines, the page contents the tests inspect) is an input of the step  *)
(* that reads it.                                                          *)
(***************************************************************************)
\* PdfStructureMixin.awamids, lines 80-87
awamids ==
    ("wcag.pdf.18" :> "EIAO.A.15.1.1.4.PDF.1.1") @@
    ("wcag.pdf.16" :> "EIAO.A.10.4.1.4.PDF.1.1") @@
    ("egovmon.pdf.05" :> "EIAO.A.10.8.1.4.PDF.1.1") @@
    ("egovmon.pdf.08" :> "EIAO.A.10.3.1.4.PDF.1.1") @@
    ("wcag.pdf.09" :> "EIAO.A.10.3.5.4.PDF.1.1") @@
    ("wcag.pdf.02" :> "EIAO.A.10.13.3.4.PDF.1.1") @@
    ("egovmon.pdf.03" :> "EIAO.A.10.3.2.4.PDF.1.1")

AwamIdValues == {awamids[n] : n \in DOMAIN awamids}

LangId == "EIAO.A.0.0.0.0.4.PDF.4.1"

\* init(), lines 263-265: every identifier of awamids starts as {(0,1): 0}
PreInit(hh) ==
    [hh EXCEPT !.resultMap =
        [id \in DOMAIN @ \cup AwamIdValues |->
            IF id \in AwamIdValues THEN LocMap(<<0, 1>> :> 0) ELSE @[id]]]

\* A variant of set_awam_id that stores the bare value
SetAwamId_Scalar(hh, name, value, page) ==
    [hh EXCEPT !.resultMap = Put(@, awamids[name], Scalar(value))]

\* set_awam_id(name, value, page), lines 267-271
SetAwamId(hh, name, value, page) ==
    [hh EXCEPT !.resultMap = Put(@, awamids[name], LocMap(<<page, 1>> :> value))]

\* The document: a table with a row of a header and a data cell whose only
\* kid is null, a figure without alternate text on the first page, and a
\* form without /K.
AwamPool ==
    (1 :> Elem("Table", 111, 11)) @@ (11 :> ArrObj(<<3>>)) @@
    (3 :> Elem("TR", 111, 13))    @@ (13 :> ArrObj(<<5, 6>>)) @@
    (5 :> Elem("TH", 0, 0))       @@ (6 :> Elem("TD", 0, 16)) @@
    (16 :> ArrObj(<<22>>))        @@ (22 :> NullObj) @@
    (9 :> Elem("Form", 0, 0))     @@
    (10 :> FigureElem(111, FALSE, FALSE, 0)) @@
    (30 :> ArrObj(<<1, 10, 9>>))

\* The reader is constructed; self.awamHandler exists from init() on, h
\* before that stands for no handler.
AwamSpecInit ==
    /\ doc = AwamPool
    /\ rd \in {ReaderNew("none", 0, EmptyFn), ReaderNew("empty", 0, EmptyFn),
               ReaderNew("dict", 0, EmptyFn), ReaderNew("dict", 30, EmptyFn)}
    /\ op = "new"
    /\ arg = NoneRef
    /\ ret = 0
    /\ exc = "none"
    /\ tbl = TblNew
    /\ hist = <<>>
    /\ h = HandlerNew(NoRoleMap, FALSE, FALSE)
    /\ stack = <<>>
    /\ walk = "constructed"
    /\ visited = {}

\* A step of runAllTests that changes the handler and goes on at position to
AwamStep(name, from, to, hh) ==
    /\ walk = from
    /\ walk' = to
    /\ op' = name
    /\ h' = hh
    /\ UNCHANGED <<doc, arg, ret, exc, tbl, hist, rd, stack, visited>>

\* init(), lines 240-265; pdfwamvalidateimgs comes from the configuration
\* build_numbers_tree, lines 143-147, leaves structroot an empty dictionary
\* when the document has no /StructTreeRoot
InitAWAM ==
    /\ walk = "constructed"
    /\ walk' = "assign_mwam_ids"
    /\ op' = "init"
    /\ rd' = [rd EXCEPT !.structroot = IF @ = "none" THEN "empty" ELSE @]
    /\ \E validateImages \in BOOLEAN :
        h' = PreInit(HandlerNew(NoRoleMap, validateImages, FALSE))
    /\ UNCHANGED <<doc, arg, ret, exc, tbl, hist, stack, visited>>

MwamIds ==
    {"EGOVMON.PDF.PROP.01", "EGOVMON.PDF.PROP.02", "EGOVMON.PDF.PROP.03",
     "EGOVMON.PDF.PROP.04", "EGOVMON.PDF.PROP.05", "EGOVMON.PDF.PROP.06",
     "EGOVMON.PDF.PROP.07"}

\* assign_mwam_ids(), lines 214-238: the properties, each under (0, 1)
AssignMwamIds ==
    AwamStep("assign_mwam_ids", "assign_mwam_ids", "title",
             [h EXCEPT !.resultMap =
                [id \in DOMAIN @ \cup MwamIds |->
                    IF id \in MwamIds THEN LocMap(<<0, 1>> :> "text") ELSE @[id]]])

\* process_awam, line 282
SetTitle ==
    \E hasTitle \in 0..1 :
        AwamStep("process_awam", "title", "lang",
                 SetAwamId(h, "wcag.pdf.18", hasTitle, 0))

\* process_awam, lines 285-292
SetLang ==
    \E hasLang \in BOOLEAN :
        AwamStep("process_awam", "lang", "encrypt",
                 IF hasLang
                 THEN [SetAwamId(h, "wcag.pdf.16", 1, 0) EXCEPT
                          !.resultMap = Put(@, LangId, Scalar("en")),
                          !.langcheck = TRUE]
                 ELSE SetAwamId(h, "wcag.pdf.16", 0, 0))

\* process_awam, lines 295-310: revision 0 stands for no /Encrypt
SetEncryption ==
    \E revision \in 0..3, bit5 \in 0..1 :
        /\ revision \in {0, 1} => bit5 = 1
        /\ AwamStep("process_awam", "encrypt", "scanned",
                    IF revision = 0 THEN SetAwamId(h, "egovmon.pdf.05", 1, 0)
                    ELSE IF revision >= 2 THEN SetAwamId(h, "egovmon.pdf.05", bit5, 0)
                    ELSE h)

\* process_awam, line 313
SetScanned ==
    \E scanned \in BOOLEAN :
        AwamStep("process_awam", "scanned", "headers",
                 SetAwamId(h, "egovmon.pdf.08", IF scanned THEN 0 ELSE 1, 0))

\* process_awam, lines 316-327: page 0 stands for consistent headers
SetHeaders ==
    \E page \in 0..MaxPage :
        /\ rd.structroot # "dict" => page = 0
        /\ AwamStep("process_awam", "headers", "bookmarks",
                    IF rd.structroot # "dict"
                    THEN [h EXCEPT !.resultMap =
                            [id \in DOMAIN @ \ {awamids["wcag.pdf.09"]} |-> @[id]]]
                    ELSE IF page = 0 THEN SetAwamId(h, "wcag.pdf.09", 1, 0)
                    ELSE SetAwamId(h, "wcag.pdf.09", 0, page))

\* process_awam, line 330
SetBookmarks ==
    \E bookmarks \in 0..1 :
        AwamStep("process_awam", "bookmarks", "structure",
                 SetAwamId(h, "wcag.pdf.02", bookmarks, 0))

\* process_awam, lines 333-354: without a structure tree process_awam
\* returns, else search(structroot['/K']) is called
SetStructure ==
    /\ walk = "structure"
    /\ op' = "process_awam"
    /\ h' = SetAwamId(h, "egovmon.pdf.03", IF rd.structroot = "none" THEN 0 ELSE 1, 0)
    /\ IF rd.structroot # "dict" THEN
            /\ walk' = "returned" /\ stack' = <<>> /\ exc' = "none"
       ELSE IF rd.root = 0 THEN
            /\ walk' = "search" /\ stack' = <<>> /\ exc' = "KeyError"
       ELSE
            /\ walk' = "search" /\ stack' = <<SearchFrame(rd.root)>> /\ exc' = "none"
    /\ UNCHANGED <<doc, arg, ret, tbl, hist, rd, visited>>

\* pdfwcag.py, lines 27-29
test_ids ==
    <<"WCAG.PDF.04", "WCAG.PDF.06", "WCAG.PDF.12", "WCAG.PDF.15",
      "WCAG.PDF.17", "WCAG.PDF.03">>

\* What a test returns: an integer, or a dictionary status -> page -> items,
\* given as the (status, page) of its items in the order of iteration.
IntRet(v) == [kind |-> "int", val |-> v, items |-> <<>>]
DictRet(items) == [kind |-> "dict", val |-> 0, items |-> items]

TestRets(test_id) ==
    IF test_id \in {"WCAG.PDF.04", "WCAG.PDF.06"}
    THEN {IntRet(2), DictRet(<<[status |-> 0, page |-> 1], [status |-> 1, page |-> 2]>>)}
    ELSE IF test_id = "WCAG.PDF.03" THEN {IntRet(0), IntRet(1)}
    ELSE {IntRet(0), IntRet(1), IntRet(2)}

\* runSelectedTest, lines 176-197: the entry written for a test
TestEntry(r) ==
    IF r.kind = "int" THEN LocMap(<<0, 1>> :> r.val)
    ELSE LocMap([k \in {<<r.items[i].page, i>> : i \in 1..Len(r.items)} |->
                    r.items[k[2]].status])

\* runSelectedTest(test_id, results), lines 169-201, in the loop of
\* runAllTests, lines 220-221
RunSelectedTest ==
    /\ walk = "returned"
    /\ Len(hist) < Len(test_ids)
    /\ \E r \in TestRets(test_ids[Len(hist) + 1]) :
        h' = IF r.kind = "int" /\ r.val = 2 THEN h
             ELSE [h EXCEPT !.resultMap =
                     Put(@, "EGOVMON.A." \o test_ids[Len(hist) + 1], TestEntry(r))]
    /\ hist' = Append(hist, test_ids[Len(hist) + 1])
    /\ op' = "runSelectedTest"
    /\ UNCHANGED <<doc, arg, ret, exc, tbl, rd, stack, walk, visited>>

\* runAllTests, lines 223-251, and test_WCAG_PDF_11_13, lines 336-438: the
\* test returns before it writes, or writes its two entries
RunIndependentTest ==
    /\ walk = "returned"
    /\ Len(hist) = Len(test_ids)
    /\ \E applicable \in BOOLEAN, status \in 0..1 :
        /\ ~applicable => status = 0
        /\ h' = IF ~applicable THEN h
                ELSE [h EXCEPT !.resultMap =
                        Put(Put(@, "EGOVMON.A.WCAG.PDF.11", LocMap(<<1, 1>> :> status)),
                            "EGOVMON.A.WCAG.PDF.13", LocMap(EmptyFn))]
    /\ hist' = Append(hist, "WCAG.PDF.11.13")
    /\ walk' = "done"
    /\ op' = "runAllTests"
    /\ UNCHANGED <<doc, arg, ret, exc, tbl, rd, stack, visited>>

AwamNext ==
    \/ InitAWAM \/ AssignMwamIds
    \/ SetTitle \/ SetLang \/ SetEncryption \/ SetScanned \/ SetHeaders
    \/ SetBookmarks \/ SetStructure
    \/ SearchStep \/ DispatchStep \/ Unwind \/ SearchEnd
    \/ RunSelectedTest \/ RunIndependentTest

SpecAwam == AwamSpecInit /\ [][AwamNext]_vars

(***************************************************************************)
(* Claims about PdfTblStruct.add                                           *)
(***************************************************************************)
HistTypes == [i \in 1..Len(hist) |-> TypeOf(hist[i])]

C2_InvalidIsSticky ==
    [][(op' = "add" /\ tbl.invalid # 0) =>
        /\ ret' = 0 /\ exc' = "none"
        /\ tbl'.current = tbl.current /\ tbl'.prev = tbl.prev
        /\ tbl'.level = tbl.level /\ tbl'.page = tbl.page
        /\ tbl'.invalid = tbl.invalid
      ]_vars

\* A Table element has been added to a validator that was already invalid.
C2_Witness ==
    /\ op = "add" /\ ret = 0 /\ tbl.invalid = 1
    /\ Len(hist) >= 3
    /\ TypeOf(arg) = "Table"
    /\ TypeOf(tbl.current) = "TD"

\* C3 as stated: from a fresh validator, the adds Table, TR, TH end with
\* level = 1 and the add of the TH returns 1.
C3_Original ==
    (op = "add" /\ HistTypes = <<"Table", "TR", "TH">>) =>
        (tbl.level = 1 /\ ret = 1)

\* C3 as amended: from a fresh validator, the adds Table, TR, TH end with
\* level = 2 (one descent to the row, one to the cell) and the add of the TH
\* returns 1.
C3_TableRowHeader ==
    (op = "add" /\ HistTypes = <<"Table", "TR", "TH">>) =>
        (tbl.level = 2 /\ ret = 1 /\ exc = "none" /\ tbl.invalid = 0)

C3_Witness ==
    /\ op = "add" /\ HistTypes = <<"Table", "TR", "TH">>
    /\ TypeOf(tbl.current) = "TH"

\* C4: add called twice in succession with the same TR, TH or TD element
\* (the first call applied): the second call returns 0 and leaves current,
\* prev and level unchanged.
C4_DuplicateIgnored ==
    [][(op = "add" /\ op' = "add" /\ arg' = arg /\ ret = 1
          /\ TypeOf(arg) \in {"TR", "TH", "TD"}) =>
        /\ ret' = 0
        /\ tbl'.current = tbl.current
        /\ tbl'.prev = tbl.prev
        /\ tbl'.level = tbl.level
      ]_vars

(***************************************************************************)
(* Claims about the handler's table bookkeeping                            *)
(***************************************************************************)
\* C5: for every table registered in tableStructDict and every sequence of
\* handler calls on Table / TR / TH / TD elements, repeated visits of the
\* same Table element included: once the table's page number is greater
\* than 0 it never changes again.
C5_PageSticks ==
    [][\A t \in DOMAIN h.tableStructDict :
          h.tableStructDict[t].page > 0 =>
            h'.tableStructDict[t].page = h.tableStructDict[t].page
      ]_vars

(***************************************************************************)
(* Claims about the walker                                                 *)
(***************************************************************************)
\* The objects the /K links of o lead to
KidsOf(o) ==
    IF doc[o].kind = "arr" THEN {doc[o].items[i] : i \in 1..Len(doc[o].items)}
    ELSE IF doc[o].kind = "dict" /\ doc[o].K # 0 THEN {doc[o].K}
    ELSE {}

RECURSIVE ReachFrom(_, _)
\* The objects reached from those of set in at most n links
ReachFrom(set, n) ==
    IF n = 0 THEN set
    ELSE ReachFrom(set \cup UNION {KidsOf(o) : o \in set}, n - 1)

Reachable == ReachFrom({rd.root}, Cardinality(DOMAIN doc))

IsElement(o) == doc[o].kind = "dict" /\ doc[o].S # NoKey

\* No object is reached from its own kids
Acyclic ==
    \A o \in Reachable : o \notin ReachFrom(KidsOf(o), Cardinality(DOMAIN doc))

\* Every object of the tree is a structure element or an array of them
WellFormed ==
    \A o \in Reachable :
        /\ doc[o].kind \in {"dict", "arr"}
        /\ IsElement(o) => doc[o].S = "P"

\* C6: process_awam completes whatever the shape of a single element: the
\* traversal is never left by an exception because of a TR, TH or TD met
\* before any Table, a Form whose /K is an array, or a null kid in a kids
\* array.  (Running out of stack on a cyclic graph is the matter of C9.)
C6_TraversalNeverRaises ==
    walk = "raised" => exc = "RecursionError"

\* C7: after search(root) on a finite acyclic tree of structure elements,
\* every element reachable from the root through /K links, single or in
\* arrays, has been passed to the handler at least once.
C7_AllReachableDispatched ==
    (walk = "returned" /\ Acyclic /\ WellFormed) =>
        \A o \in Reachable : IsElement(o) => o \in visited

\* C8: when search has processed the array of the structure root's kids,
\* for every kid of an item of the array that is an integer the element the
\* numbers tree maps it to has been passed to the handler.
C8_IntegerKidsLookedUp ==
    (walk = "returned" /\ rd.root # 0 /\ doc[rd.root].kind = "arr") =>
        \A i \in 1..Len(doc[rd.root].items) :
            LET item == doc[doc[rd.root].items[i]] IN
            (item.kind = "dict" /\ item.K # 0) =>
                \A j \in 1..Len(KidList(item.K)) :
                    LET kid == doc[KidList(item.K)[j]] IN
                    (kid.kind = "num" /\ kid.n \in DOMAIN rd.numstree) =>
                        rd.numstree[kid.n] \in visited

\* C9: search(root) comes to its end by itself on every finite structure
\* graph, also when the kids of an element contain one of its ancestors: the
\* calls of search and awam_dispatcher never nest until the stack runs out.
C9_SearchTerminates ==
    exc # "RecursionError"

(***************************************************************************)
(* Claims about the result map                                             *)
(***************************************************************************)
\* C10: in every state reached through init(), process_awam, the handler
\* and runAllTests, each identifier of awamids is absent from the result map
\* or mapped to a location map, never to a scalar.
C10_PreInitKeepKind ==
    \A id \in AwamIdValues :
        id \in DOMAIN h.resultMap => h.resultMap[id].kind = "map"

\* runAllTests is over on a document with /Lang and a structure tree: the
\* language is stored as a scalar, the handler and the tests have written
\* their entries, and the pre-initialised entries have been overwritten.
C10_Witness ==
    /\ walk = "done"
    /\ LangId \in DOMAIN h.resultMap /\ h.resultMap[LangId].kind = "scalar"
    /\ AltId \in DOMAIN h.resultMap
    /\ "EGOVMON.A.WCAG.PDF.04" \in DOMAIN h.resultMap
    /\ \A id \in AwamIdValues : id \in DOMAIN h.resultMap
    /\ h.resultMap[awamids["wcag.pdf.18"]].map = (<<0, 1>> :> 1)
    /\ h.resultMap[awamids["wcag.pdf.09"]].map = (<<MaxPage, 1>> :> 0)

(***************************************************************************)
(* The handler on figures: awamHandler called on figure elements in any    *)
(* order, any number of times, for every setting of validateImages and     *)
(* ignoreSingleBitImgs, without and with a role map that sends /Sect to    *)
(* /Figure.                                                                *)
(***************************************************************************)
\* Figures without texts on the first page (1 and 6, equal as dictionaries),
\* on the page of a 1-bit image (2) and without /Pg (3), a figure with /Alt
\* (4) and a /Sect element without texts (5).
FigurePool ==
    (1 :> FigureElem(111, FALSE, FALSE, 0)) @@
    (2 :> FigureElem(112, FALSE, FALSE, 0)) @@
    (3 :> FigureElem(0, FALSE, FALSE, 0)) @@
    (4 :> FigureElem(111, TRUE, FALSE, 0)) @@
    (5 :> Elem("Sect", 0, 0)) @@
    (6 :> FigureElem(111, FALSE, FALSE, 0))

FigureSpecInit ==
    /\ doc = FigurePool
    /\ op = "new"
    /\ arg = NoneRef
    /\ ret = 0
    /\ exc = "none"
    /\ tbl = TblNew
    /\ hist = <<>>
    /\ \E roleMap \in {NoRoleMap, RoleMap("Sect" :> "Figure")},
          validateImages \in BOOLEAN, ignoreSingleBitImgs \in BOOLEAN :
        h = HandlerNew(roleMap, validateImages, ignoreSingleBitImgs)
    /\ rd = ReaderNew("none", 0, EmptyFn)
    /\ stack = <<>>
    /\ walk = "idle"
    /\ visited = {}

SpecFigure == FigureSpecInit /\ [][HandlerNext]_vars

(***************************************************************************)
(* Claims about the figures                                                *)
(***************************************************************************)
\* The element is a figure: tagged /Figure or sent to /Figure by the role map
IsFigure(e) ==
    \/ TypeOf(e) = "Figure"
    \/ /\ ~h.roleMap.isNone
       /\ TypeOf(e) \in DOMAIN h.roleMap.map
       /\ h.roleMap.map[TypeOf(e)] = "Figure"

\* How often element e is in the bucket of page pg of failedImgs
TimesFailed(e, pg) ==
    IF pg \notin DOMAIN h.failedImgs THEN 0
    ELSE Cardinality({i \in 1..Len(h.failedImgs[pg]) : h.failedImgs[pg][i] = e})

\* C11: after the handler has been called on a figure element (tagged
\* /Figure or mapped to /Figure by the role map) that has neither /Alt nor
\* /ActualText, however often it was called before, the element is in
\* failedImgs exactly once: in one bucket only, which is bucket 0 when
\* validateImages is off.
C11_FailedImageOnce ==
    (op = "awamHandler" /\ exc = "none" /\ IsFigure(arg)
        /\ ~doc[arg].Alt /\ ~doc[arg].ActualText) =>
        /\ \E pg \in DOMAIN h.failedImgs :
            /\ TimesFailed(arg, pg) = 1
            /\ \A q \in DOMAIN h.failedImgs \ {pg} : TimesFailed(arg, q) = 0
        /\ ~h.validateImgs => TimesFailed(arg, 0) = 1

(***************************************************************************)
(* build_numbers_tree on every small parent tree.  Object 40 is the        *)
(* catalog, 41 the structure tree root, 42 the parent tree, 43 and 44 the  *)
(* nodes its /Kids may name.  A /Nums array is a sequence of numbers: the  *)
(* keys, and the object numbers of the values.                             *)
(***************************************************************************)
MaxNums == 3    \* entries of the parent tree's /Nums array
MaxKidNums == 2 \* entries of the /Nums array of a kid of the parent tree
MaxKey == 2     \* keys and values of a /Nums array

\* A dictionary of the number tree: has says which keys are there
TreeNode(hasNums, nums, hasKids, kids) ==
    [hasNums |-> hasNums, Nums |-> nums, hasKids |-> hasKids, Kids |-> kids]

SeqsUpTo(S, n) == UNION {[1..k -> S] : k \in 0..n}

\* seq[0::2] and seq[1::2]
EvenSlice(seq) == [i \in 1..((Len(seq) + 1) \div 2) |-> seq[2 * i - 1]]
OddSlice(seq) == [i \in 1..(Len(seq) \div 2) |-> seq[2 * i]]

RECURSIVE FillNums(_, _, _, _)
\* Lines 198-199: for i in range(0, len(keys)): numstree[keys[i]] = values[i]
FillNums(t, keys, values, i) ==
    IF i > Len(keys) THEN [numstree |-> t, exc |-> "none"]
    ELSE IF i > Len(values) THEN [numstree |-> t, exc |-> "IndexError"]
    ELSE FillNums(Put(t, keys[i], values[i]), keys, values, i + 1)

RECURSIVE KidNums(_, _, _)
\* Lines 185-188: nums += kid['/Nums'] for the kids in turn; the KeyError of
\* a kid without /Nums ends the loop
KidNums(kids, i, nums) ==
    IF i > Len(kids) THEN nums
    ELSE IF ~doc[kids[i]].hasNums THEN nums
    ELSE KidNums(kids, i + 1, nums \o doc[kids[i]].Nums)

\* Lines 174-196: the /Nums array of the parent tree, else of its kids
CollectNums(pt) ==
    IF doc[pt].hasNums THEN doc[pt].Nums
    ELSE IF ~doc[pt].hasKids THEN <<>>
    ELSE KidNums(doc[pt].Kids, 1, <<>>)

\* build_numbers_tree(), lines 136-199: structroot and numstree after the
\* call and the exception that leaves it
BuildNumbersTree ==
    IF doc[40].StructTreeRoot = 0
    THEN [structroot |-> "empty", numstree |-> EmptyFn, exc |-> "none"]
    ELSE IF doc[41].ParentTree = 0
    THEN [structroot |-> "dict", numstree |-> EmptyFn, exc |-> "none"]
    ELSE [structroot |-> "dict"] @@
         FillNums(EmptyFn, EvenSlice(CollectNums(doc[41].ParentTree)),
                  OddSlice(CollectNums(doc[41].ParentTree)), 1)

KidNodes ==
    {TreeNode(FALSE, <<>>, FALSE, <<>>)} \cup
    {TreeNode(TRUE, n, FALSE, <<>>) : n \in SeqsUpTo(1..MaxKey, MaxKidNums)}

NumsSpecInit ==
    /\ \E sr \in {0, 41}, pt \in {0, 42},
          hasNums \in BOOLEAN, nums \in SeqsUpTo(1..MaxKey, MaxNums),
          hasKids \in BOOLEAN, kids \in SeqsUpTo({43, 44}, 2),
          k1 \in KidNodes, k2 \in KidNodes :
        /\ ~hasNums => nums = <<>>
        /\ ~hasKids => kids = <<>>
        /\ pt = 0 => ~hasNums /\ ~hasKids /\ k1 = k2
        /\ sr = 0 => pt = 0
        /\ doc = (40 :> [StructTreeRoot |-> sr]) @@ (41 :> [ParentTree |-> pt]) @@
                 (42 :> TreeNode(hasNums, nums, hasKids, kids)) @@
                 (43 :> k1) @@ (44 :> k2)
    /\ op = "new"
    /\ arg = NoneRef
    /\ ret = 0
    /\ exc = "none"
    /\ tbl = TblNew
    /\ hist = <<>>
    /\ h = HandlerNew(NoRoleMap, FALSE, FALSE)
    /\ rd = ReaderNew("none", 0, EmptyFn)
    /\ stack = <<>>
    /\ walk = "idle"
    /\ visited = {}

BuildNumbersTreeCall ==
    /\ op = "new"
    /\ op' = "build_numbers_tree"
    /\ rd' = [rd EXCEPT !.structroot = BuildNumbersTree.structroot,
                        !.numstree = BuildNumbersTree.numstree]
    /\ exc' = BuildNumbersTree.exc
    /\ UNCHANGED <<doc, arg, ret, tbl, hist, h, stack, walk, visited>>

SpecNums == NumsSpecInit /\ [][BuildNumbersTreeCall]_vars

(***************************************************************************)
(* Claims about the numbers tree                                           *)
(***************************************************************************)
\* The pairs of an array of alternating keys and values, as a mapping
PairsOf(seq) ==
    [k \in {seq[2 * i - 1] : i \in 1..(Len(seq) \div 2)} |->
        LET last == CHOOSE i \in 1..(Len(seq) \div 2) :
                        /\ seq[2 * i - 1] = k
                        /\ \A j \in (i + 1)..(Len(seq) \div 2) : seq[2 * j - 1] # k
        IN  seq[2 * last]]

RECURSIVE AllKidNums(_, _)
\* The /Nums arrays of all the kids that have one, concatenated
AllKidNums(kids, i) ==
    IF i > Len(kids) THEN <<>>
    ELSE (IF doc[kids[i]].hasNums THEN doc[kids[i]].Nums ELSE <<>>)
            \o AllKidNums(kids, i + 1)

\* Every /Nums array holds whole pairs
WholePairs ==
    \A o \in {42, 43, 44} : Len(doc[o].Nums) % 2 = 0

\* C12: build_numbers_tree yields exactly the pairs of the parent tree's
\* /Nums array when it is there; otherwise exactly the pairs of the
\* concatenation of the /Nums arrays of all the kids of the parent tree that
\* have one; and an empty mapping, without raising, when the structure root,
\* the parent tree or every /Nums array is missing.
C12_NumbersTree ==
    (op = "build_numbers_tree" /\ WholePairs) =>
        /\ exc = "none"
        /\ rd.numstree =
            IF doc[40].StructTreeRoot = 0 \/ doc[41].ParentTree = 0 THEN EmptyFn
            ELSE IF doc[42].hasNums THEN PairsOf(doc[42].Nums)
            ELSE PairsOf(AllKidNums(doc[42].Kids, 1))

(***************************************************************************)
(* document_headers_consistent on the headings of small documents.  The    *)
(* pages of the document are 111, 112 and 113 in this order.  The numbers  *)
(* tree maps 0 and 1 to the arrays 61 and 62 of structure elements; object *)
(* 50 is the outline: an array of its entries, or null when reading the    *)
(* attribute fails.                                                        *)
(***************************************************************************)
MaxItems == 2   \* structure elements in one array of the numbers tree

DocPages == <<111, 112, 113>>

\* header_re, line 52, on the tags used: the heading level of a tag
HeaderLevel == ("H1" :> 1) @@ ("H2" :> 2) @@ ("H3" :> 3)

\* Headings of three levels on the first two pages, a heading whose page is
\* read from its /K (8 -> 9), and a paragraph.
HeaderPool ==
    (1 :> Elem("H1", 111, 0)) @@ (2 :> Elem("H2", 111, 0)) @@
    (3 :> Elem("H3", 111, 0)) @@ (4 :> Elem("H1", 112, 0)) @@
    (5 :> Elem("H2", 112, 0)) @@ (6 :> Elem("H3", 112, 0)) @@
    (7 :> Elem("P", 111, 0))  @@ (8 :> Elem("H2", 0, 9)) @@
    (9 :> Elem("Span", 112, 0))

\* The values of the numbers tree in the order of its keys
NumsValues(numstree) ==
    [i \in 1..Cardinality(DOMAIN numstree) |->
        numstree[CHOOSE k \in DOMAIN numstree :
                    Cardinality({j \in DOMAIN numstree : j < k}) = i - 1]]

RECURSIVE ItemsOf(_, _)
\* Lines 531, 537-538: the items of all the values, value after value
ItemsOf(vals, i) ==
    IF i > Len(vals) THEN <<>>
    ELSE (IF doc[vals[i]].kind = "arr" THEN doc[vals[i]].items ELSE <<>>)
            \o ItemsOf(vals, i + 1)

\* Lines 543-547: item['/Pg'], else item['/K']['/Pg']; 0 stands for KeyError
ItemPage(item) ==
    IF doc[item].Pg # 0 THEN doc[item].Pg
    ELSE IF doc[item].K = 0 THEN 0
    ELSE doc[doc[item].K].Pg

RECURSIVE GatherHeaders(_, _, _)
\* Lines 537-558: headers[pgnum] for every page, and the exception that
\* ends the loop
GatherHeaders(items, i, headers) ==
    IF i > Len(items) THEN [headers |-> headers, exc |-> "none"]
    ELSE IF doc[items[i]].kind # "dict" THEN GatherHeaders(items, i + 1, headers)
    ELSE IF doc[items[i]].S = NoKey THEN [headers |-> headers, exc |-> "KeyError"]
    ELSE IF doc[items[i]].S \notin DOMAIN HeaderLevel
    THEN GatherHeaders(items, i + 1, headers)
    ELSE IF ItemPage(items[i]) = 0 THEN [headers |-> headers, exc |-> "KeyError"]
    ELSE IF IndexOf(DocPages, ItemPage(items[i])) = 0
    THEN GatherHeaders(items, i + 1, headers)
    ELSE GatherHeaders(items, i + 1,
            [headers EXCEPT ![IndexOf(DocPages, ItemPage(items[i]))] =
                Append(@, items[i])])

RECURSIVE LevelCheck(_, _, _, _, _)
\* Lines 577-602: the headings of the pages from pgnum on, i the next
\* heading of the page, lprev the level seen last
LevelCheck(headers, pgnum, i, lprev, page) ==
    IF pgnum > Len(DocPages) THEN [ret |-> TRUE, page |-> page]
    ELSE IF i > Len(headers[pgnum])
    THEN LevelCheck(headers, pgnum + 1, 1, lprev, page)
    ELSE IF HeaderLevel[doc[headers[pgnum][i]].S] - lprev > 1
    THEN [ret |-> FALSE, page |-> pgnum]
    ELSE LevelCheck(headers, pgnum, i + 1,
                    HeaderLevel[doc[headers[pgnum][i]].S], page)

\* Lines 562-575: the first page with a heading; Len(DocPages) + 1: none
FirstHeaderPage(headers) ==
    IF \A p \in 1..Len(DocPages) : headers[p] = <<>> THEN Len(DocPages) + 1
    ELSE CHOOSE p \in 1..Len(DocPages) :
            /\ headers[p] # <<>>
            /\ \A q \in 1..(p - 1) : headers[q] = <<>>

\* Lines 560-604, headers being filled
HeadersCheck(headers, page) ==
    IF FirstHeaderPage(headers) > Len(DocPages)
    THEN LevelCheck(headers, 1, 1, 0, page)
    ELSE IF doc[headers[FirstHeaderPage(headers)][1]].S # "H1"
    THEN [ret |-> FALSE, page |-> FirstHeaderPage(headers)]
    ELSE LevelCheck(headers, FirstHeaderPage(headers), 1, 0, page)

HeadersGathered(g, page) ==
    IF g.exc # "none" THEN [ret |-> FALSE, page |-> page, exc |-> g.exc]
    ELSE HeadersCheck(g.headers, page) @@ [exc |-> "none"]

\* document_headers_consistent(), lines 511-604: the value returned, self.page
\* after the call and the exception that leaves it
DocumentHeadersConsistent(r) ==
    IF doc[50].kind = "arr" /\ Len(doc[50].items) = 0
    THEN [ret |-> TRUE, page |-> r.page, exc |-> "none"]
    ELSE HeadersGathered(
            GatherHeaders(ItemsOf(NumsValues(r.numstree), 1), 1,
                          [p \in 1..Len(DocPages) |-> <<>>]),
            r.page)

HeadersSpecInit ==
    /\ \E outline \in {ArrObj(<<>>), ArrObj(<<70>>), NullObj},
          a1 \in SeqsUpTo(1..8, MaxItems), a2 \in SeqsUpTo(1..8, MaxItems),
          n \in 0..2 :
        /\ n < 2 => a2 = <<>>
        /\ n < 1 => a1 = <<>>
        /\ doc = HeaderPool @@ (50 :> outline) @@
                 (61 :> ArrObj(a1)) @@ (62 :> ArrObj(a2))
        /\ rd = ReaderNew("dict", 0, [k \in 0..(n - 1) |-> 61 + k])
    /\ op = "new"
    /\ arg = NoneRef
    /\ ret = 0
    /\ exc = "none"
    /\ tbl = TblNew
    /\ hist = <<>>
    /\ h = HandlerNew(NoRoleMap, FALSE, FALSE)
    /\ stack = <<>>
    /\ walk = "idle"
    /\ visited = {}

DocumentHeadersConsistentCall ==
    /\ op = "new"
    /\ op' = "document_headers_consistent"
    /\ ret' = IF DocumentHeadersConsistent(rd).ret THEN 1 ELSE 0
    /\ exc' = DocumentHeadersConsistent(rd).exc
    /\ rd' = [rd EXCEPT !.page = DocumentHeadersConsistent(rd).page]
    /\ UNCHANGED <<doc, arg, tbl, hist, h, stack, walk, visited>>

SpecHeaders == HeadersSpecInit /\ [][DocumentHeadersConsistentCall]_vars

(***************************************************************************)
(* Claims about the headings                                               *)
(***************************************************************************)
\* The headings of the document on page number p, in the order of the
\* numbers tree
HeadingsOn(p) ==
    SelectSeq(ItemsOf(NumsValues(rd.numstree), 1),
              LAMBDA e : /\ doc[e].S \in DOMAIN HeaderLevel
                         /\ ItemPage(e) = DocPages[p])

\* The headings in page order, each with its level and page number
Headings ==
    LET on(p) == [i \in 1..Len(HeadingsOn(p)) |->
                    [level |-> HeaderLevel[doc[HeadingsOn(p)[i]].S], page |-> p]]
    IN  on(1) \o on(2) \o on(3)

\* Heading i breaks the rule: the first is not H1, or it is more than one
\* level below the heading before it
Offends(i) ==
    IF i = 1 THEN Headings[1].level # 1
    ELSE Headings[i].level - Headings[i - 1].level > 1

\* C13: document_headers_consistent returns False exactly when the document
\* has a heading and the first heading in page order is not H1 or some
\* heading is more than one level below the heading before it, and self.page
\* is then the page of the first such heading; it returns True otherwise.
C13_HeadersConsistent ==
    (op = "document_headers_consistent") =>
        /\ exc = "none"
        /\ ret = 0 <=> \E i \in 1..Len(Headings) : Offends(i)
        /\ ret = 0 =>
            \E i \in 1..Len(Headings) :
                /\ Offends(i)
                /\ \A j \in 1..(i - 1) : ~Offends(j)
                /\ rd.page = Headings[i].page

(***************************************************************************)
(* Scanned documents, pdfStructureMixin.py lines 1072-1163                 *)
(*                                                                         *)
(* The document is a record: whether the catalog has /StructTreeRoot, the  *)
(* Producer of its metadata, and its pages.  A page says whether it has    *)
(* /Resources, what /Font is ("absent", "empty", "full") and what /XObject *)
(* is ("absent", "notdict", "noimage", "image").                           *)
(***************************************************************************)
MaxScanPages == 3

ScanPage(res, font, xobj) == [Resources |-> res, Font |-> font, XObject |-> xobj]

ScanPagePool ==
    {ScanPage(FALSE, "absent", "absent"), ScanPage(TRUE, "full", "image"),
     ScanPage(TRUE, "absent", "image"),   ScanPage(TRUE, "empty", "image"),
     ScanPage(TRUE, "absent", "absent"),  ScanPage(TRUE, "absent", "noimage"),
     ScanPage(TRUE, "absent", "notdict")}

\* The producers of documents: none, one of no scanner, and one that starts
\* with a name of scproducers, lines 73-76, in another case
Producers == {"", "Acrobat Distiller 9.0", "canon ir c2880 1.2"}

\* self.producer.lower().startswith(prod) for some prod of scproducers
ScanProducer(producer) == producer = "canon ir c2880 1.2"

\* _get_is_scanned(pgnum), lines 1133-1163: a page without /Resources gives
\* None as resource tree and '/Font' in None raises TypeError
PageIsScanned(pg) ==
    IF ~pg.Resources THEN [ret |-> FALSE, exc |-> "TypeError"]
    ELSE IF pg.XObject \in {"absent", "notdict"} THEN [ret |-> FALSE, exc |-> "none"]
    ELSE [ret |-> pg.Font # "full" /\ pg.XObject = "image", exc |-> "none"]

\* a and b, where b is evaluated only when a is true and has not raised
AndThen(a, b) == IF a.exc # "none" \/ ~a.ret THEN a ELSE b

\* get_is_scanned(), lines 1098-1131; pg1 and pg2 are the random pages, and
\* None, returned for a document without pages, is false
GetIsScanned(r, d, pg1, pg2) ==
    IF d.producer # "" /\ ScanProducer(d.producer) THEN [ret |-> TRUE, exc |-> "none"]
    ELSE IF r.structroot # "none" THEN [ret |-> FALSE, exc |-> "none"]
    ELSE IF Len(d.pages) = 0 THEN [ret |-> FALSE, exc |-> "none"]
    ELSE IF Len(d.pages) = 1 THEN PageIsScanned(d.pages[1])
    ELSE IF Len(d.pages) = 2
    THEN AndThen(PageIsScanned(d.pages[1]), PageIsScanned(d.pages[2]))
    ELSE AndThen(PageIsScanned(d.pages[1]),
                 AndThen(PageIsScanned(d.pages[pg1 + 1]),
                         PageIsScanned(d.pages[pg2 + 1])))

ScanSpecInit ==
    /\ \E tree \in BOOLEAN, producer \in Producers,
          pages \in SeqsUpTo(ScanPagePool, MaxScanPages) :
        doc = [StructTreeRoot |-> tree, producer |-> producer, pages |-> pages]
    /\ rd = ReaderNew("none", 0, EmptyFn)
    /\ op = "new"
    /\ arg = NoneRef
    /\ ret = 0
    /\ exc = "none"
    /\ tbl = TblNew
    /\ hist = <<>>
    /\ h = HandlerNew(NoRoleMap, FALSE, FALSE)
    /\ stack = <<>>
    /\ walk = "constructed"
    /\ visited = {}

\* The random pages of a call
RandomPages == 0..(IF Len(doc.pages) = 0 THEN 0 ELSE Len(doc.pages) - 1)

\* reader.get_is_scanned() called from outside, before or after init()
GetIsScannedCall ==
    /\ walk \in {"constructed", "initialised"}
    /\ \E pg1 \in RandomPages, pg2 \in RandomPages :
        /\ ret' = IF GetIsScanned(rd, doc, pg1, pg2).ret THEN 1 ELSE 0
        /\ exc' = GetIsScanned(rd, doc, pg1, pg2).exc
    /\ op' = "get_is_scanned"
    /\ hist' = Append(hist, walk)
    /\ Len(hist) < 1
    /\ UNCHANGED <<doc, arg, tbl, h, rd, stack, walk, visited>>

\* init(), lines 240-265: build_numbers_tree sets structroot, the handler is
\* made and its identifiers are initialised
ScanInit ==
    /\ walk = "constructed"
    /\ walk' = "initialised"
    /\ op' = "init"
    /\ rd' = [rd EXCEPT !.structroot = IF doc.StructTreeRoot THEN "dict" ELSE "empty"]
    /\ h' = PreInit(HandlerNew(NoRoleMap, FALSE, FALSE))
    /\ exc' = "none"
    /\ hist' = <<>>
    /\ UNCHANGED <<doc, arg, ret, tbl, stack, visited>>

\* process_awam, line 313: egovmon.pdf.08 is int(not get_is_scanned())
ProcessAwamScanned ==
    /\ walk = "initialised"
    /\ walk' = "scanned"
    /\ op' = "process_awam"
    /\ \E pg1 \in RandomPages, pg2 \in RandomPages :
        /\ exc' = GetIsScanned(rd, doc, pg1, pg2).exc
        /\ h' = IF GetIsScanned(rd, doc, pg1, pg2).exc # "none" THEN h
                ELSE SetAwamId(h, "egovmon.pdf.08",
                               IF GetIsScanned(rd, doc, pg1, pg2).ret THEN 0 ELSE 1, 0)
    /\ UNCHANGED <<doc, arg, ret, tbl, hist, rd, stack, visited>>

ScanNext == GetIsScannedCall \/ ScanInit \/ ProcessAwamScanned

SpecScan == ScanSpecInit /\ [][ScanNext]_vars

\* The document of the claim: a producer that is no scanner, one page with
\* an image and no font
ImageOnlyPage ==
    /\ ~ScanProducer(doc.producer)
    /\ doc.pages = <<ScanPage(TRUE, "absent", "image")>>

\* C14: a document whose producer is no scanner, without structure tree and
\* with one page that has an image and no font, is scanned for
\* get_is_scanned() called before init() and for the egovmon.pdf.08 entry of
\* process_awam (status 0); with a structure tree process_awam records it as
\* not scanned (status 1).
C14_ScannedWithoutTree ==
    ImageOnlyPage =>
        /\ (op = "get_is_scanned" /\ hist = <<"constructed">> /\ ~doc.StructTreeRoot)
                => ret = 1
        /\ op = "process_awam"
                => h.resultMap[awamids["egovmon.pdf.08"]].map[<<0, 1>>]
                        = (IF doc.StructTreeRoot THEN 1 ELSE 0)

(***************************************************************************)
(* Bookmarks, pdfStructureMixin.py lines 606-629                           *)
(*                                                                         *)
(* The document is its /Outlines dictionary: whether the catalog has it,   *)
(* whether it has /Count and its value, and what /First and /Last are:     *)
(* "absent", "None" (get_object() gives None) or "obj".                    *)
(***************************************************************************)
MaxCount == 2

Outlines(present, hasCount, count, first, last) ==
    [present |-> present, hasCount |-> hasCount, Count |-> count,
     First |-> first, Last |-> last]

OutlineRefs == {"absent", "None", "obj"}

\* has_bookmarks(), lines 606-629: a missing /Outlines, /First or /Last
\* raises KeyError, which gives False
HasBookmarks(o) ==
    IF ~o.present THEN FALSE
    ELSE IF o.First = "absent" \/ o.Last = "absent" THEN FALSE
    ELSE (IF o.hasCount THEN o.Count ELSE 0) > 0
            \/ (o.First # "None" /\ o.Last # "None")

BookmarksSpecInit ==
    /\ \E present \in BOOLEAN, hasCount \in BOOLEAN, count \in (0 - 1)..MaxCount,
          first \in OutlineRefs, last \in OutlineRefs :
        /\ ~hasCount => count = 0
        /\ ~present => (~hasCount /\ first = "absent" /\ last = "absent")
        /\ doc = Outlines(present, hasCount, count, first, last)
    /\ rd = ReaderNew("empty", 0, EmptyFn)
    /\ op = "init"
    /\ arg = NoneRef
    /\ ret = 0
    /\ exc = "none"
    /\ tbl = TblNew
    /\ hist = <<>>
    /\ h = PreInit(HandlerNew(NoRoleMap, FALSE, FALSE))
    /\ stack = <<>>
    /\ walk = "bookmarks"
    /\ visited = {}

\* reader.has_bookmarks()
HasBookmarksCall ==
    /\ op # "has_bookmarks"
    /\ op' = "has_bookmarks"
    /\ ret' = IF HasBookmarks(doc) THEN 1 ELSE 0
    /\ UNCHANGED <<doc, arg, exc, tbl, hist, h, rd, stack, walk, visited>>

\* process_awam, line 330: wcag.pdf.02 is int(has_bookmarks())
ProcessAwamBookmarks ==
    /\ walk = "bookmarks"
    /\ walk' = "structure"
    /\ op' = "process_awam"
    /\ h' = SetAwamId(h, "wcag.pdf.02", IF HasBookmarks(doc) THEN 1 ELSE 0, 0)
    /\ UNCHANGED <<doc, arg, ret, exc, tbl, hist, rd, stack, visited>>

BookmarksNext == HasBookmarksCall \/ ProcessAwamBookmarks

SpecBookmarks == BookmarksSpecInit /\ [][BookmarksNext]_vars

\* C15: has_bookmarks returns True exactly when /Outlines has /Count > 0 or
\* both /First and /Last resolve to something that is not null, so for every
\* /Outlines with /Count > 0, whether or not /First and /Last are present.
C15_BookmarksIffCountOrEnds ==
    (op = "has_bookmarks") =>
        (ret = 1 <=>
            /\ doc.present
            /\ \/ doc.hasCount /\ doc.Count > 0
               \/ doc.First = "obj" /\ doc.Last = "obj")

(***************************************************************************)
(* test_WCAG_PDF_06 and runSelectedTest, pdfwcag.py lines 169-201,         *)
(* 257-272 and 651-678                                                     *)
(*                                                                         *)
(* The tables are registered by the handler; the test reads                *)
(* awamHandler.tableStructDict.  A PdfTblStruct has no __eq__, so the      *)
(* tables are told apart by identity, which is the key of the dictionary.  *)
(* The dictionary is iterated in ascending order of its keys.              *)
(***************************************************************************)
\* Three tables, two of them on the first page, a row and two cells
TablePool ==
    (1 :> Elem("Table", 111, 11)) @@ (2 :> Elem("Table", 0, 12)) @@
    (3 :> Elem("Table", 111, 13)) @@ (4 :> Elem("TR", 112, 14)) @@
    (5 :> Elem("TD", 0, 15))      @@ (6 :> Elem("TH", 112, 16))

RECURSIVE SortedSeq(_)
\* The members of a set of numbers in ascending order
SortedSeq(S) ==
    IF S = {} THEN <<>>
    ELSE <<CHOOSE x \in S : \A y \in S : x <= y>> \o
         SortedSeq(S \ {CHOOSE x \in S : \A y \in S : x <= y})

\* A variant of updateResult that replaces the list of the page
UpdateResult_Replace(result, pg, target) == Put(result, pg, <<target>>)

\* updateResult(result, pg, target), lines 257-269
UpdateResult(result, pg, target) ==
    IF pg \notin DOMAIN result THEN Put(result, pg, <<target>>)
    ELSE IF \E i \in 1..Len(result[pg]) : result[pg][i] = target THEN result
    ELSE Put(result, pg, Append(result[pg], target))

\* initResult(), lines 271-272
InitResult == (0 :> EmptyFn) @@ (1 :> EmptyFn)

RECURSIVE Test06Loop(_, _, _)
\* test_WCAG_PDF_06, lines 669-675: the loop over the tables
Test06Loop(dict, keys, results) ==
    IF keys = <<>> THEN results
    ELSE Test06Loop(dict, Tail(keys),
            [results EXCEPT ![IF dict[Head(keys)].invalid # 0 THEN 0 ELSE 1] =
                UpdateResult(@, dict[Head(keys)].page, Head(keys))])

\* test_WCAG_PDF_06(), lines 651-678
Test_WCAG_PDF_06(hh) ==
    IF DOMAIN hh.tableStructDict = {}
    THEN [kind |-> "int", val |-> 2, results |-> InitResult]
    ELSE [kind |-> "dict", val |-> 0,
          results |-> Test06Loop(hh.tableStructDict,
                                 SortedSeq(DOMAIN hh.tableStructDict), InitResult)]

RECURSIVE PageItems(_, _, _)
\* runSelectedTest, lines 190-192: the items of one status, page by page
PageItems(status, pagedict, pages) ==
    IF pages = <<>> THEN <<>>
    ELSE [i \in 1..Len(pagedict[Head(pages)]) |->
            [status |-> status, page |-> Head(pages),
             item |-> pagedict[Head(pages)][i]]]
         \o PageItems(status, pagedict, Tail(pages))

\* runSelectedTest, lines 189-192: the items in the order of the three loops
ResultItems(results) ==
    PageItems(0, results[0], SortedSeq(DOMAIN results[0])) \o
    PageItems(1, results[1], SortedSeq(DOMAIN results[1]))

\* runSelectedTest, lines 187-198: (fail, succ)
FailSucc(items) ==
    <<Cardinality({i \in 1..Len(items) : items[i].status = 0}),
      Cardinality({i \in 1..Len(items) : items[i].status # 0})>>

TablesSpecInit ==
    /\ doc = TablePool
    /\ op = "new"
    /\ arg = NoneRef
    /\ ret = IntRet(0)
    /\ exc = "none"
    /\ tbl = TblNew
    /\ hist = <<>>
    /\ h = PreInit(HandlerNew(NoRoleMap, FALSE, FALSE))
    /\ rd = [structroot |-> "dict", memo |-> EmptyFn]
    /\ stack = <<>>
    /\ walk = "search"
    /\ visited = {}

\* The traversal passes an element to the handler
RegisterTable ==
    /\ walk = "search"
    /\ h.elementCount < MaxCalls
    /\ \E e \in DOMAIN doc :
        /\ h' = AwamHandler(h, e).h
        /\ exc' = AwamHandler(h, e).exc
        /\ arg' = e
    /\ op' = "awamHandler"
    /\ UNCHANGED <<doc, ret, tbl, hist, rd, stack, walk, visited>>

\* runSelectedTest('WCAG.PDF.06', results), lines 169-201
RunSelectedTest06 ==
    /\ walk = "search"
    /\ walk' = "tested"
    /\ op' = "runSelectedTest"
    /\ ret' = Test_WCAG_PDF_06(h)
    /\ exc' = "none"
    /\ IF Test_WCAG_PDF_06(h).kind = "int" THEN UNCHANGED <<h, rd>>
       ELSE /\ h' = [h EXCEPT !.resultMap =
                        Put(@, "EGOVMON.A.WCAG.PDF.06",
                            TestEntry(DictRet(ResultItems(Test_WCAG_PDF_06(h).results))))]
            /\ rd' = [rd EXCEPT !.memo =
                        Put(@, "wcag.pdf.06",
                            FailSucc(ResultItems(Test_WCAG_PDF_06(h).results)))]
    /\ UNCHANGED <<doc, arg, tbl, hist, stack, visited>>

TablesNext == RegisterTable \/ RunSelectedTest06

SpecTables == TablesSpecInit /\ [][TablesNext]_vars

\* The places (status, page, position) of table e in the returned result
PlacesOf(e) ==
    {p \in {0, 1} \X (0..MaxPage) \X (1..MaxCalls) :
        /\ p[2] \in DOMAIN ret.results[p[1]]
        /\ p[3] <= Len(ret.results[p[1]][p[2]])
        /\ ret.results[p[1]][p[2]][p[3]] = e}

LinkAnnot(subtype, action, rect, alt) ==
    [kind |-> "dict", Subtype |-> subtype, A |-> action, Rect |-> rect,
     Alt |-> alt, Type |-> NoKey, Obj |-> 0]

\* Link elements 1 and 2 with their object references, a paragraph, and the
\* annotations: 21 and 22 are equal as dictionaries, 23 has no /Rect and an
\* empty /Alt, 24 is an internal link, 25 has no action, 26 is no link, 27
\* has no /Alt.
LinkPool ==
    (1 :> Elem("Link", 0, 31)) @@ (2 :> Elem("Link", 0, 12)) @@
    (4 :> Elem("P", 0, 0)) @@
    (12 :> ArrObj(<<33, 34>>)) @@
    (31 :> ObjrObj(21)) @@ (33 :> ObjrObj(23)) @@ (34 :> ObjrObj(24)) @@
    (21 :> LinkAnnot("Link", "URI", TRUE, "text")) @@
    (22 :> LinkAnnot("Link", "URI", TRUE, "text")) @@
    (23 :> LinkAnnot("Link", "URI", FALSE, "empty")) @@
    (24 :> LinkAnnot("Link", "GoTo", TRUE, "absent")) @@
    (25 :> LinkAnnot("Link", "absent", TRUE, "text")) @@
    (26 :> LinkAnnot("Widget", "absent", TRUE, "absent")) @@
    (27 :> LinkAnnot("Link", "URI", TRUE, "absent"))

FirstPageAnnots == {<<>>, <<26>>, <<21>>, <<22>>, <<21, 22>>, <<24, 23>>, <<25, 21>>}
SecondPageAnnots == {<<>>, <<27>>, <<24>>}

RECURSIVE GetExternalLinks(_, _)
\* get_external_links(), lines 775-791: (annotation, page) for the link
\* annotations of the pages from pgnum on
GetExternalLinks(pages, pgnum) ==
    IF pgnum > Len(pages) THEN <<>>
    ELSE [i \in 1..Len(SelectSeq(pages[pgnum], LAMBDA a : doc[a].Subtype = "Link")) |->
            [annot |-> SelectSeq(pages[pgnum], LAMBDA a : doc[a].Subtype = "Link")[i],
             pg |-> pgnum]]
         \o GetExternalLinks(pages, pgnum + 1)

\* has_external_links(), lines 793-829
HasExternalLinks(pages) ==
    \E pgnum \in 1..Len(pages) : \E i \in 1..Len(pages[pgnum]) :
        doc[pages[pgnum][i]].Subtype = "Link"

\* extLink in linkObjs, line 401: the list holds the registered annotations
\* and membership compares dictionaries
InLinkObjs(hh, a) == \E k \in DOMAIN hh.linkAnnots : PyEq(hh.linkAnnots[k][1], a)

\* Lines 423-435: the status written for /Alt
AltStatus(a) == IF doc[a].Alt = "text" THEN 1 ELSE 0

RECURSIVE LinkLoop(_, _, _, _)
\* The loop of lines 386-435 from link number count on: the two maps
LinkLoop(hh, links, count, maps) ==
    IF count > Len(links) THEN maps
    ELSE IF doc[links[count].annot].A # "URI" THEN LinkLoop(hh, links, count + 1, maps)
    ELSE LinkLoop(hh, links, count + 1,
            [m11 |-> Put(maps.m11, <<links[count].pg, count>>,
                         IF InLinkObjs(hh, links[count].annot)
                                /\ doc[links[count].annot].Rect THEN 1 ELSE 0),
             m13 |-> Put(maps.m13, <<links[count].pg, count>>,
                         AltStatus(links[count].annot))])

\* test_WCAG_PDF_11_13(wamdict), lines 336-438: what it returns and the
\* result map after it
Test_WCAG_PDF_11_13(r, hh, links) ==
    IF ~HasExternalLinks(r.pages) THEN [ret |-> 2, h |-> hh]
    ELSE IF r.structroot \in {"none", "empty"} THEN [ret |-> 0, h |-> hh]
    ELSE [ret |-> 1,
          h |-> [hh EXCEPT !.resultMap =
                    Put(Put(@, "EGOVMON.A.WCAG.PDF.11",
                            LocMap(LinkLoop(hh, links, 1,
                                            [m11 |-> EmptyFn, m13 |-> EmptyFn]).m11)),
                        "EGOVMON.A.WCAG.PDF.13",
                        LocMap(LinkLoop(hh, links, 1,
                                        [m11 |-> EmptyFn, m13 |-> EmptyFn]).m13))]]

\* A variant that sets the memo only for an entry with a failed item
MemoOf_OnlyWithFailures(memo, hh, key, test_id) ==
    IF key \notin DOMAIN hh.resultMap
       \/ ~\E k \in DOMAIN hh.resultMap[key].map : hh.resultMap[key].map[k] = 0 THEN memo
    ELSE Put(memo, test_id,
             <<Cardinality({k \in DOMAIN hh.resultMap[key].map : hh.resultMap[key].map[k] = 0}),
               Cardinality({k \in DOMAIN hh.resultMap[key].map : hh.resultMap[key].map[k] # 0})>>)

\* runAllTests, lines 236-246: (fail, succ) of a new entry, set once the
\* entry has an item
MemoOf(memo, hh, key, test_id) ==
    IF key \notin DOMAIN hh.resultMap \/ DOMAIN hh.resultMap[key].map = {} THEN memo
    ELSE Put(memo, test_id,
             <<Cardinality({k \in DOMAIN hh.resultMap[key].map : hh.resultMap[key].map[k] = 0}),
               Cardinality({k \in DOMAIN hh.resultMap[key].map : hh.resultMap[key].map[k] # 0})>>)

LinksSpecInit ==
    /\ doc = LinkPool
    /\ \E p1 \in FirstPageAnnots, p2 \in SecondPageAnnots, s \in {"empty", "dict"} :
        rd = [structroot |-> s, memo |-> EmptyFn, pages |-> <<p1, p2>>]
    /\ op = "init"
    /\ arg = NoneRef
    /\ ret = 0
    /\ exc = "none"
    /\ tbl = TblNew
    /\ hist = <<>>
    /\ h = PreInit(HandlerNew(NoRoleMap, FALSE, FALSE))
    /\ stack = <<>>
    /\ walk = "search"
    /\ visited = {}

\* The traversal of the structure tree passes an element to the handler
RegisterLink ==
    /\ walk = "search"
    /\ rd.structroot = "dict"
    /\ h.elementCount < MaxCalls
    /\ \E e \in {1, 2, 4} :
        /\ h' = AwamHandler(h, e).h
        /\ exc' = AwamHandler(h, e).exc
        /\ arg' = e
    /\ op' = "awamHandler"
    /\ UNCHANGED <<doc, ret, tbl, hist, rd, stack, walk, visited>>

\* runAllTests, lines 223-251, for WCAG.PDF.11.13
RunTest1113 ==
    /\ walk = "search"
    /\ walk' = "done"
    /\ op' = "test_WCAG_PDF_11_13"
    /\ ret' = Test_WCAG_PDF_11_13(rd, h, GetExternalLinks(rd.pages, 1)).ret
    /\ h' = Test_WCAG_PDF_11_13(rd, h, GetExternalLinks(rd.pages, 1)).h
    /\ rd' = [rd EXCEPT !.memo =
                MemoOf(MemoOf(@, h', "EGOVMON.A.WCAG.PDF.11", "wcag.pdf.11"),
                       h', "EGOVMON.A.WCAG.PDF.13", "wcag.pdf.13")]
    /\ exc' = "none"
    /\ UNCHANGED <<doc, arg, tbl, hist, stack, visited>>

LinksNext == RegisterLink \/ RunTest1113

SpecLinks == LinksSpecInit /\ [][LinksNext]_vars

\* The link annotations in the order of the pages, each with its page
LinkSeq == GetExternalLinks(rd.pages, 1)

\* The entry of the test under key, empty when nothing was written
Written(key) ==
    IF key \in DOMAIN h.resultMap THEN h.resultMap[key].map ELSE EmptyFn

\* C17: test_WCAG_PDF_11_13 returns 2 and writes nothing without external
\* links, returns 0 with links and no or an empty structure tree; otherwise
\* every link annotation with a URI action has one entry under
\* EGOVMON.A.WCAG.PDF.11, 1 exactly when the annotation is registered in
\* linkAnnots and has /Rect, and one under EGOVMON.A.WCAG.PDF.13, 1 exactly
\* when /Alt is not empty, at the same key; other annotations have none.
C17_LinkEntries ==
    (op = "test_WCAG_PDF_11_13") =>
        /\ LinkSeq = <<>> =>
            /\ ret = 2
            /\ "EGOVMON.A.WCAG.PDF.11" \notin DOMAIN h.resultMap
            /\ "EGOVMON.A.WCAG.PDF.13" \notin DOMAIN h.resultMap
        /\ (LinkSeq # <<>> /\ rd.structroot # "dict") => ret = 0
        /\ (LinkSeq # <<>> /\ rd.structroot = "dict") =>
            /\ DOMAIN Written("EGOVMON.A.WCAG.PDF.11")
                    = {<<LinkSeq[i].pg, i>> : i \in {j \in 1..Len(LinkSeq) :
                                                doc[LinkSeq[j].annot].A = "URI"}}
            /\ DOMAIN Written("EGOVMON.A.WCAG.PDF.13")
                    = DOMAIN Written("EGOVMON.A.WCAG.PDF.11")
            /\ \A i \in 1..Len(LinkSeq) :
                doc[LinkSeq[i].annot].A = "URI" =>
                    /\ Written("EGOVMON.A.WCAG.PDF.11")[<<LinkSeq[i].pg, i>>] = 1
                        <=> /\ LinkSeq[i].annot \in DOMAIN h.linkAnnots
                            /\ doc[LinkSeq[i].annot].Rect
                    /\ Written("EGOVMON.A.WCAG.PDF.13")[<<LinkSeq[i].pg, i>>] = 1
                        <=> doc[LinkSeq[i].annot].Alt = "text"

(***************************************************************************)
(* test_WCAG_PDF_03, pdfwcag.py lines 888-923                              *)
(*                                                                         *)
(* The document says whether the catalog has /StructTreeRoot and, for      *)
(* every page, what /Tabs is: "absent", "S" or "R".                        *)
(***************************************************************************)
MaxTabPages == 3

TabsValues == {"absent", "S", "R"}

\* test_WCAG_PDF_03(), lines 888-923
Test_WCAG_PDF_03(r, d) ==
    IF r.structroot # "none" THEN 1
    ELSE IF Cardinality({p \in 1..Len(d.pages) : d.pages[p] = "S"}) = Len(d.pages)
    THEN 1
    ELSE 0

TabsSpecInit ==
    /\ \E tree \in BOOLEAN, pages \in SeqsUpTo(TabsValues, MaxTabPages) :
        doc = [StructTreeRoot |-> tree, pages |-> pages]
    /\ rd = ReaderNew("none", 0, EmptyFn)
    /\ op = "new"
    /\ arg = NoneRef
    /\ ret = 0
    /\ exc = "none"
    /\ tbl = TblNew
    /\ hist = <<>>
    /\ h = HandlerNew(NoRoleMap, FALSE, FALSE)
    /\ stack = <<>>
    /\ walk = "constructed"
    /\ visited = {}

\* init(), lines 240-265: build_numbers_tree sets structroot
TabsInit ==
    /\ walk = "constructed"
    /\ walk' = "initialised"
    /\ op' = "init"
    /\ rd' = [rd EXCEPT !.structroot = IF doc.StructTreeRoot THEN "dict" ELSE "empty"]
    /\ h' = PreInit(HandlerNew(NoRoleMap, FALSE, FALSE))
    /\ UNCHANGED <<doc, arg, ret, exc, tbl, hist, stack, visited>>

\* reader.test_WCAG_PDF_03(), before or after init()
Test03Call ==
    /\ walk \in {"constructed", "initialised"}
    /\ op # "test_WCAG_PDF_03"
    /\ op' = "test_WCAG_PDF_03"
    /\ ret' = Test_WCAG_PDF_03(rd, doc)
    /\ UNCHANGED <<doc, arg, exc, tbl, hist, h, rd, stack, walk, visited>>

TabsNext == TabsInit \/ Test03Call

SpecTabs == TabsSpecInit /\ [][TabsNext]_vars

\* C18: after init(), test_WCAG_PDF_03 returns 1 for a document with a
\* structure tree, and for a document without one it returns 1 exactly when
\* /Tabs of every page is /S.
C18_TabsWithoutTree ==
    (op = "test_WCAG_PDF_03" /\ walk = "initialised") =>
        IF doc.StructTreeRoot THEN ret = 1
        ELSE ret = 1 <=> \A p \in 1..Len(doc.pages) : doc.pages[p] = "S"

(***************************************************************************)
(* The form tests, pdfwcag.py lines 440-649, with the fields of the form,  *)
(* pdfStructureMixin.py lines 910-942 and 1038-1046                        *)
(*                                                                         *)
(* getFormObject and fetchFormFields, which the tests call, are taken to   *)
(* name get_form_object and fetch_form_fields.  A field says its /Kids     *)
(* (empty: no /Kids), /FT, /TU and /T ("absent", "empty", "text"), /V and  *)
(* /DV ("absent", "falsy", "truthy"), whether it has /Opt, what /Ff is     *)
(* ("absent", "number", "other") and its value, whether it has /MK /CA,    *)
(* /S and whether it has /JS.  The form of the reader is root['/AcroForm']:*)
(* whether it is there, whether it has /Fields, and the fields.            *)
(***************************************************************************)
MaxFields == 2

FormField(kids, ft, tu, t, v, dv, opt, ffkind, ff, ca, s, js) ==
    [Kids |-> kids, FT |-> ft, TU |-> tu, T |-> t, V |-> v, DV |-> dv,
     Opt |-> opt, FfKind |-> ffkind, Ff |-> ff, CA |-> ca, S |-> s, JS |-> js]

\* A leaf field of type ft with the given names, a truthy /V and no state
Named(ft, tu, t) ==
    FormField(<<>>, ft, tu, t, "truthy", "absent", FALSE, "absent", 0, FALSE, "absent", FALSE)

\* A push button, /Ff 65536
PushBtn(tu, ca, s, js) ==
    FormField(<<>>, "Btn", tu, "absent", "absent", "absent", FALSE, "number", 65536, ca, s, js)

FormPool ==
    (1 :> Named("Tx", "text", "absent")) @@
    (2 :> PushBtn("text", TRUE, "absent", FALSE)) @@
    (3 :> Named("absent", "absent", "absent")) @@
    (4 :> Named("Foo", "text", "text")) @@
    (5 :> FormField(<<>>, "Ch", "absent", "text", "absent", "absent", FALSE,
                    "absent", 0, FALSE, "absent", FALSE)) @@
    (6 :> Named("Tx", "empty", "text")) @@
    (7 :> FormField(<<5, 3>>, "absent", "absent", "absent", "absent", "absent",
                    FALSE, "absent", 0, FALSE, "absent", FALSE)) @@
    (8 :> FormField(<<>>, "Sig", "text", "absent", "absent", "absent", FALSE,
                    "other", 0, FALSE, "absent", FALSE)) @@
    (9 :> PushBtn("text", FALSE, "absent", FALSE)) @@
    (10 :> PushBtn("text", FALSE, "JavaScript", FALSE)) @@
    (11 :> PushBtn("absent", TRUE, "absent", FALSE)) @@
    (12 :> Named("Tx", "absent", "absent")) @@
    (13 :> FormField(<<>>, "Tx", "text", "absent", "falsy", "absent", TRUE,
                     "absent", 0, FALSE, "absent", FALSE)) @@
    (14 :> PushBtn("text", FALSE, "JavaScript", TRUE))

\* pdfStructureMixin.py line 55
form_elems == {"Tx", "Btn", "Ch", "Sig"}

RECURSIVE FetchFormFields(_)
\* fetch_form_fields / _fetch_form_fields, lines 910-942: every field of
\* the list, each followed by the fields below it
FetchFormFields(fields) ==
    IF fields = <<>> THEN <<>>
    ELSE <<Head(fields)>> \o FetchFormFields(doc[Head(fields)].Kids)
         \o FetchFormFields(Tail(fields))

\* A variant of the state check that fails a field without /Ff
StateVerdict_Strict(f) ==
    IF f.V = "truthy" \/ (f.V = "falsy" /\ f.DV # "absent") THEN "next"
    ELSE IF f.Opt THEN "next"
    ELSE IF f.FfKind = "number" THEN "next"
    ELSE "fail"

\* test_WCAG_PDF_12, lines 548-581: value, options or state of a field
StateVerdict(f) ==
    IF f.V = "truthy" \/ (f.V = "falsy" /\ f.DV # "absent") THEN "next"
    ELSE IF f.Opt THEN "next"
    ELSE IF f.FfKind = "other" THEN "fail"
    ELSE "next"

\* test_WCAG_PDF_12, lines 522-541: name is /TU, or /T when /TU is missing
NameVerdict(f) ==
    IF f.TU = "absent" /\ f.T = "absent" THEN "fail"
    ELSE IF (IF f.TU # "absent" THEN f.TU ELSE f.T) = "empty" THEN "fail"
    ELSE StateVerdict(f)

\* test_WCAG_PDF_12, lines 468-581: one round of the loop, "fail" for
\* return 0 and "next" for the next field
FieldVerdict(f) ==
    IF f.Kids # <<>> THEN "next"
    ELSE IF f.FT = "absent" THEN "next"
    ELSE IF f.FT \notin form_elems THEN "fail"
    ELSE IF f.FT = "Btn" THEN "next"
    ELSE NameVerdict(f)

RECURSIVE Test12Loop(_)
Test12Loop(items) ==
    IF items = <<>> THEN 1
    ELSE IF FieldVerdict(doc[Head(items)]) = "fail" THEN 0
    ELSE Test12Loop(Tail(items))

\* test_WCAG_PDF_12(), lines 440-585: a form without /Fields makes the
\* generator raise UnboundLocalError
Test_WCAG_PDF_12(form) ==
    IF ~form.present THEN [ret |-> 2, exc |-> "none"]
    ELSE IF ~form.hasFields THEN [ret |-> -1, exc |-> "UnboundLocalError"]
    ELSE [ret |-> Test12Loop(FetchFormFields(form.Fields)), exc |-> "none"]

\* test_WCAG_PDF_15, lines 601-613: the push buttons that have /TU
PushBtns(items) ==
    SelectSeq(items, LAMBDA i : /\ doc[i].FfKind = "number"
                                /\ doc[i].Ff = 65536
                                /\ doc[i].TU # "absent")

\* test_WCAG_PDF_15, lines 617-645: the first push button decides
SubmitVerdict(btn) ==
    IF btn.CA THEN 1
    ELSE IF btn.S = "JavaScript" /\ ~btn.JS THEN 0
    ELSE 1

\* test_WCAG_PDF_15(), lines 587-649: item.get_object() on the None of a
\* form without /Fields raises AttributeError
Test_WCAG_PDF_15(form) ==
    IF ~form.present THEN [ret |-> 2, exc |-> "none"]
    ELSE IF ~form.hasFields THEN [ret |-> -1, exc |-> "AttributeError"]
    ELSE IF PushBtns(FetchFormFields(form.Fields)) = <<>> THEN [ret |-> 2, exc |-> "none"]
    ELSE [ret |-> SubmitVerdict(doc[Head(PushBtns(FetchFormFields(form.Fields)))]),
          exc |-> "none"]

\* The fields under /Fields: fields that are no kid of another field
TopFields == DOMAIN FormPool \ {5, 3}

FormsSpecInit ==
    /\ doc = FormPool
    /\ \E present \in BOOLEAN, hasFields \in BOOLEAN,
          fields \in SeqsUpTo(TopFields, MaxFields) :
        /\ ~hasFields => fields = <<>>
        /\ ~present => ~hasFields
        /\ rd = [structroot |-> "empty",
                 form |-> [present |-> present, hasFields |-> hasFields,
                           Fields |-> fields]]
    /\ op = "init"
    /\ arg = NoneRef
    /\ ret = 0
    /\ exc = "none"
    /\ tbl = TblNew
    /\ hist = <<>>
    /\ h = PreInit(HandlerNew(NoRoleMap, FALSE, FALSE))
    /\ stack = <<>>
    /\ walk = "returned"
    /\ visited = {}

\* reader.test_WCAG_PDF_12()
Test12Call ==
    /\ op = "init"
    /\ op' = "test_WCAG_PDF_12"
    /\ ret' = Test_WCAG_PDF_12(rd.form).ret
    /\ exc' = Test_WCAG_PDF_12(rd.form).exc
    /\ UNCHANGED <<doc, arg, tbl, hist, h, rd, stack, walk, visited>>

\* reader.test_WCAG_PDF_15()
Test15Call ==
    /\ op = "init"
    /\ op' = "test_WCAG_PDF_15"
    /\ ret' = Test_WCAG_PDF_15(rd.form).ret
    /\ exc' = Test_WCAG_PDF_15(rd.form).exc
    /\ UNCHANGED <<doc, arg, tbl, hist, h, rd, stack, walk, visited>>

FormsNext == Test12Call \/ Test15Call

SpecForms == FormsSpecInit /\ [][FormsNext]_vars

(***************************************************************************)
(* Claims about the form tests                                             *)
(***************************************************************************)
\* The leaf fields of the form, the fields below other fields included
Leaves ==
    {FetchFormFields(rd.form.Fields)[i] : i \in 1..Len(FetchFormFields(rd.form.Fields))}
        \cap {f \in DOMAIN doc : doc[f].Kids = <<>>}

\* The field has a name that is not empty, /TU or else /T
HasName(f) == doc[f].TU = "text" \/ doc[f].T = "text"

\* The field has no value, no default value, no options and no state
NoValueNoState(f) ==
    /\ doc[f].V = "absent" /\ doc[f].DV = "absent"
    /\ ~doc[f].Opt /\ doc[f].FfKind = "absent"

\* The fields of the form in another order
Reordered ==
    {[i \in 1..Len(rd.form.Fields) |-> rd.form.Fields[p[i]]] :
        p \in {q \in [1..Len(rd.form.Fields) -> 1..Len(rd.form.Fields)] :
                    \A i, j \in 1..Len(rd.form.Fields) : q[i] = q[j] => i = j}}

\* The clauses of the claim that do not depend on which leaves count
C19_Common ==
    /\ ~rd.form.present => ret = 2
    /\ rd.form.present =>
        /\ ret \in {0, 1}
        /\ ret = 0 => \E f \in Leaves : ~NoValueNoState(f) \/ ~HasName(f)
                                        \/ doc[f].FT \notin form_elems
        /\ \A fields \in Reordered :
            Test_WCAG_PDF_12([rd.form EXCEPT !.Fields = fields]).ret = ret

SubmitButton(f) ==
    /\ doc[f].FfKind = "number" /\ doc[f].Ff = 65536
    /\ doc[f].CA \/ (doc[f].S = "JavaScript" /\ doc[f].JS)

\* C20: test_WCAG_PDF_15 returns 2 without a form; it returns 1 only if
\* some push button field (/Ff 65536) has a caption (/MK /CA) or a
\* JavaScript action; with a form in which no push button has either it
\* returns 2.
C20_SubmitButton ==
    (op = "test_WCAG_PDF_15" /\ exc = "none") =>
        /\ ~rd.form.present => ret = 2
        /\ ret = 1 =>
            \E i \in 1..Len(FetchFormFields(rd.form.Fields)) :
                SubmitButton(FetchFormFields(rd.form.Fields)[i])
        /\ (rd.form.present
                /\ \A i \in 1..Len(FetchFormFields(rd.form.Fields)) :
                        ~SubmitButton(FetchFormFields(rd.form.Fields)[i]))
            => ret = 2

(***************************************************************************)
(* test_WCAG_PDF_17, pdfwcag.py lines 274-334                              *)
(*                                                                         *)
(* getPageLabels is taken to name get_page_labels.  The page labels of the *)
(* reader are root['/PageLabels']: whether it is there, whether it has     *)
(* /Nums, the (key, entry) pairs of /Nums in their order, an entry given   *)
(* by its /S ("absent": no /S), and whether a key without entry follows    *)
(* them, which makes the length odd.                                       *)
(***************************************************************************)
MaxLabels == 2
MaxLabelKey == 1

\* Line 326
LabelStyles == {"D", "r", "R", "A", "a"}

\* The /S of the entries of the documents: two styles, a name that is no
\* style, and no /S
EntryStyles == {"D", "a", "X", "absent"}

RECURSIVE DictOfPairs(_, _)
\* dict(numsl), line 311: a later pair replaces an earlier one of its key
DictOfPairs(d, pairs) ==
    IF pairs = <<>> THEN d
    ELSE DictOfPairs(Put(d, Head(pairs)[1], Head(pairs)[2]), Tail(pairs))

\* Lines 318-331: every value of numsd has /S and it is a style
EntriesValid(numsd) == \A k \in DOMAIN numsd : numsd[k] \in LabelStyles

\* Lines 311-334, on the dictionary made of the pairs
Test17Validate(numsd) ==
    IF 0 \notin DOMAIN numsd THEN 0
    ELSE IF ~EntriesValid(numsd) THEN 0
    ELSE 1

\* test_WCAG_PDF_17(), lines 274-334
Test_WCAG_PDF_17(pl) ==
    IF ~pl.present THEN 2
    ELSE IF ~pl.hasNums THEN 0
    ELSE IF pl.dangling THEN 0
    ELSE Test17Validate(DictOfPairs(EmptyFn, pl.pairs))

LabelsSpecInit ==
    /\ doc = EmptyFn
    /\ \E present \in BOOLEAN, hasNums \in BOOLEAN, dangling \in BOOLEAN,
          pairs \in SeqsUpTo((0..MaxLabelKey) \X EntryStyles, MaxLabels) :
        /\ ~hasNums => (pairs = <<>> /\ ~dangling)
        /\ ~present => ~hasNums
        /\ rd = [structroot |-> "empty",
                 pagelabels |-> [present |-> present, hasNums |-> hasNums,
                                 pairs |-> pairs, dangling |-> dangling]]
    /\ op = "init"
    /\ arg = NoneRef
    /\ ret = 0
    /\ exc = "none"
    /\ tbl = TblNew
    /\ hist = <<>>
    /\ h = PreInit(HandlerNew(NoRoleMap, FALSE, FALSE))
    /\ stack = <<>>
    /\ walk = "returned"
    /\ visited = {}

\* reader.test_WCAG_PDF_17()
Test17Call ==
    /\ op = "init"
    /\ op' = "test_WCAG_PDF_17"
    /\ ret' = Test_WCAG_PDF_17(rd.pagelabels)
    /\ UNCHANGED <<doc, arg, exc, tbl, hist, h, rd, stack, walk, visited>>

SpecLabels == LabelsSpecInit /\ [][Test17Call]_vars

\* The keys of the /Nums array
LabelKeys == {rd.pagelabels.pairs[i][1] : i \in 1..Len(rd.pagelabels.pairs)}

\* Every entry of the /Nums array has a style
AllStyled ==
    \A i \in 1..Len(rd.pagelabels.pairs) : rd.pagelabels.pairs[i][2] \in LabelStyles

\* C21: test_WCAG_PDF_17 returns 2 only without /PageLabels; it returns 0
\* whenever /Nums has odd length, has no key 0 or has an entry whose /S is
\* missing or none of D, r, R, A, a; it returns 1 when the length is even,
\* key 0 is there and every entry has such an /S.
C21_PageLabels ==
    (op = "test_WCAG_PDF_17") =>
        /\ ret = 2 => ~rd.pagelabels.present
        /\ rd.pagelabels.hasNums =>
            /\ (rd.pagelabels.dangling \/ 0 \notin LabelKeys \/ ~AllStyled) => ret = 0
            /\ (~rd.pagelabels.dangling /\ 0 \in LabelKeys /\ AllStyled) => ret = 1

(***************************************************************************)
(* The encryption entry, pdfStructureMixin.py lines 35-38 and 294-310      *)
(*                                                                         *)
(* The document is its trailer: whether it has /Encrypt, and whether the   *)
(* encryption dictionary has /R and /P and their values.                   *)
(***************************************************************************)
MaxP == 600
MaxRevision == 4

RECURSIVE ShiftRight(_, _)
\* n >> y on a Python integer: y halvings that round down
ShiftRight(n, y) == IF y = 0 THEN n ELSE ShiftRight(n \div 2, y - 1)

\* A variant of int2bin that lists the digits from the lowest one
Int2Bin_LowestFirst(n, count) == [i \in 1..count |-> ShiftRight(n, i - 1) % 2]

\* int2bin(n, count), lines 35-38: the digits from the highest one
Int2Bin(n, count) == [i \in 1..count |-> ShiftRight(n, count - i) % 2]

\* permissions[-k]
FromEnd(s, k) == s[Len(s) - k + 1]

\* Python's a | b on two digits
BitOr(a, b) == IF a = 1 \/ b = 1 THEN 1 ELSE 0

\* process_awam, lines 294-310: "keep" when set_awam_id is not called, else
\* the value it is called with
EncryptionStatus(trailer) ==
    IF ~trailer.Encrypt THEN [set |-> TRUE, value |-> 1]
    ELSE IF (IF trailer.hasR THEN trailer.R ELSE 2) = 2
    THEN [set |-> TRUE,
          value |-> FromEnd(Int2Bin(IF trailer.hasP THEN trailer.P ELSE 1, 32), 5)]
    ELSE IF (IF trailer.hasR THEN trailer.R ELSE 2) >= 3
    THEN [set |-> TRUE,
          value |-> BitOr(FromEnd(Int2Bin(IF trailer.hasP THEN trailer.P ELSE 1, 32), 5),
                          FromEnd(Int2Bin(IF trailer.hasP THEN trailer.P ELSE 1, 32), 10))]
    ELSE [set |-> FALSE, value |-> 0]

\* Permission flags of documents: the small ones and some of real files
PValues == ((0 - MaxP)..MaxP) \cup {0 - 3904, 0 - 1340, 0 - 1852, 2147483647, 0 - 2147483647}

EncryptSpecInit ==
    /\ \E encrypted \in BOOLEAN, hasR \in BOOLEAN, hasP \in BOOLEAN,
          R \in 1..MaxRevision, P \in PValues :
        /\ ~hasR => R = 1
        /\ ~hasP => P = 0
        /\ ~encrypted => (~hasR /\ ~hasP)
        /\ doc = [Encrypt |-> encrypted, hasR |-> hasR, R |-> R,
                  hasP |-> hasP, P |-> P]
    /\ rd = [structroot |-> "empty", memo |-> EmptyFn]
    /\ op = "init"
    /\ arg = NoneRef
    /\ ret = 0
    /\ exc = "none"
    /\ tbl = TblNew
    /\ hist = <<>>
    /\ h = PreInit(HandlerNew(NoRoleMap, FALSE, FALSE))
    /\ stack = <<>>
    /\ walk = "encrypt"
    /\ visited = {}

\* process_awam, lines 294-310, with set_awam_id, lines 267-271
ProcessAwamEncryption ==
    /\ walk = "encrypt"
    /\ walk' = "scanned"
    /\ op' = "process_awam"
    /\ h' = IF EncryptionStatus(doc).set
            THEN SetAwamId(h, "egovmon.pdf.05", EncryptionStatus(doc).value, 0)
            ELSE h
    /\ rd' = IF EncryptionStatus(doc).set
             THEN [rd EXCEPT !.memo = Put(@, "egovmon.pdf.05", EncryptionStatus(doc).value)]
             ELSE rd
    /\ UNCHANGED <<doc, arg, ret, exc, tbl, hist, stack, visited>>

SpecEncrypt == EncryptSpecInit /\ [][ProcessAwamEncryption]_vars

\* Bit k, counted from 1 at the lowest end, of the 32-bit flags p
FlagBit(p, k) == (p % (2 ^ k)) \div (2 ^ (k - 1))

\* egovmon.pdf.05 is recorded as v, in the result map and in the memo
Recorded05(v) ==
    /\ h.resultMap[awamids["egovmon.pdf.05"]] = LocMap(<<0, 1>> :> v)
    /\ "egovmon.pdf.05" \in DOMAIN rd.memo
    /\ rd.memo["egovmon.pdf.05"] = v

\* C22: process_awam records egovmon.pdf.05 as bit 5 of the permission
\* flags /P for an encrypted document of revision 2, as bit 5 or bit 10 for
\* revision 3 or more, and as 1 for a document that is not encrypted; the
\* memo holds the same value.
C22_EncryptionBits ==
    (op = "process_awam") =>
        /\ ~doc.Encrypt => Recorded05(1)
        /\ (doc.Encrypt /\ doc.hasR /\ doc.hasP /\ doc.R = 2)
                => Recorded05(FlagBit(doc.P, 5))
        /\ (doc.Encrypt /\ doc.hasR /\ doc.hasP /\ doc.R >= 3)
                => Recorded05(IF FlagBit(doc.P, 5) = 1 \/ FlagBit(doc.P, 10) = 1
                              THEN 1 ELSE 0)

\* A document of revision 3 with negative flags in which bit 10 is set and
\* bit 5 is not has been processed
C22_Witness ==
    /\ op = "process_awam"
    /\ doc.Encrypt /\ doc.hasR /\ doc.hasP /\ doc.R = 3
    /\ doc.P < 0
    /\ FlagBit(doc.P, 5) = 0 /\ FlagBit(doc.P, 10) = 1
    /\ Recorded05(1)

(***************************************************************************)
(* The report, pdfwcag.py lines 57-154                                     *)
(*                                                                         *)
(* The memo is a Python dictionary, whose items come in the order of their *)
(* insertion: here it is a sequence of items [k, v].  A value is a record  *)
(* [isTuple, n, fail, succ]: the integer n, or the tuple (fail, succ).     *)
(***************************************************************************)
MaxMemo == 3
MaxTally == 1

MemoInt(n) == [isTuple |-> FALSE, n |-> n, fail |-> 0, succ |-> 0]
MemoTuple(f, p) == [isTuple |-> TRUE, n |-> 0, fail |-> f, succ |-> p]

\* test_id_desc, lines 36-51, for the tests of the reports below
test_id_desc ==
    [k \in {"egovmon.pdf.05", "wcag.pdf.06", "wcag.pdf.sc244"} |->
        CASE k = "egovmon.pdf.05" -> "permissions"
          [] k = "wcag.pdf.06" -> "accessible tables"
          [] k = "wcag.pdf.sc244" -> "accessible external links"]

\* name in memo
MemoHas(memo, name) == \E i \in DOMAIN memo : memo[i].k = name

\* memo[name], for a name in memo
MemoGet(memo, name) == memo[CHOOSE i \in DOMAIN memo : memo[i].k = name].v

\* memo[name] = value: in place for a name in memo, else at the end
MemoSet(memo, name, value) ==
    IF MemoHas(memo, name)
    THEN [i \in DOMAIN memo |-> IF memo[i].k = name
                                THEN [k |-> name, v |-> value] ELSE memo[i]]
    ELSE Append(memo, [k |-> name, v |-> value])

\* del memo[name]
MemoDel(memo, name) == SelectSeq(memo, LAMBDA it : it.k # name)

Min2(a, b) == IF a <= b THEN a ELSE b
Max2(a, b) == IF a >= b THEN a ELSE b

\* A variant of the merge that takes the larger of the two fail counts
Sc244_MaxFail(memo) ==
    MemoTuple(Max2(MemoGet(memo, "wcag.pdf.11").fail, MemoGet(memo, "wcag.pdf.13").fail),
              Max2(MemoGet(memo, "wcag.pdf.11").succ, MemoGet(memo, "wcag.pdf.13").succ))

\* lines 66-70: fail is the min of the fails, pass the max of the passes
Sc244(memo) ==
    MemoTuple(Min2(MemoGet(memo, "wcag.pdf.11").fail, MemoGet(memo, "wcag.pdf.13").fail),
              Max2(MemoGet(memo, "wcag.pdf.11").succ, MemoGet(memo, "wcag.pdf.13").succ))

\* lines 65-74 and 111-120: [memo, exc]; memo['wcag.pdf.11'] or
\* memo['wcag.pdf.13'] raises KeyError when only the other one is there
MergeLinks(memo) ==
    IF MemoHas(memo, "wcag.pdf.11") \/ MemoHas(memo, "wcag.pdf.13")
    THEN IF MemoHas(memo, "wcag.pdf.11") /\ MemoHas(memo, "wcag.pdf.13")
         THEN [memo |-> MemoDel(MemoDel(MemoSet(memo, "wcag.pdf.sc244", Sc244(memo)),
                                        "wcag.pdf.11"), "wcag.pdf.13"),
               exc |-> "none"]
         ELSE [memo |-> memo, exc |-> "KeyError"]
    ELSE [memo |-> memo, exc |-> "none"]

\* lines 82-97: msg of an item; the text "" stands for the dictionary
\* {'Fail': fail, 'Pass': succ} of a tuple and for the untouched msg
StatusMsg(v) ==
    IF ~v.isTuple
    THEN [text |-> IF v.n = 0 THEN "Fail" ELSE IF v.n = 1 THEN "Pass" ELSE "",
          isDict |-> FALSE, Fail |-> 0, Pass |-> 0]
    ELSE [text |-> "", isDict |-> TRUE, Fail |-> v.fail, Pass |-> v.succ]

\* what an item adds to tfail and to tpass, lines 82-95
FailOf(v) == IF v.isTuple THEN v.fail ELSE IF v.n = 0 THEN 1 ELSE 0
PassOf(v) == IF v.isTuple THEN v.succ ELSE IF v.n = 1 THEN 1 ELSE 0

RECURSIVE Tally(_, _, _)
\* the loop of lines 78-101 over the items from the i-th on
Tally(memo, i, acc) ==
    IF i > Len(memo) THEN acc
    ELSE Tally(memo, i + 1,
               [result |-> Append(acc.result,
                                  [Test |-> memo[i].k,
                                   Status |-> StatusMsg(memo[i].v),
                                   Description |->
                                       IF memo[i].k \in DOMAIN test_id_desc
                                       THEN test_id_desc[memo[i].k] ELSE "N.A"]),
                tfail |-> acc.tfail + FailOf(memo[i].v),
                tpass |-> acc.tpass + PassOf(memo[i].v)])

\* lines 103-105
JsonOf(t) ==
    [result |-> t.result,
     summary |-> [Total |-> t.tfail + t.tpass, Fail |-> t.tfail, Pass |-> t.tpass]]

\* get_json, lines 57-105, on the memo: [memo, exc, json]
GetJson(memo) ==
    [memo |-> MergeLinks(memo).memo,
     exc |-> MergeLinks(memo).exc,
     json |-> JsonOf(Tally(MergeLinks(memo).memo, 1,
                           [result |-> <<>>, tfail |-> 0, tpass |-> 0]))]

\* The memos of the reports: up to MaxMemo items of different tests, the
\* integers 0 and 1 for the permissions and tuples for the other tests
MemoKeys == {"wcag.pdf.11", "wcag.pdf.13", "wcag.pdf.06", "egovmon.pdf.05"}
MemoValues(k) ==
    IF k = "egovmon.pdf.05" THEN {MemoInt(0), MemoInt(1)}
    ELSE {MemoTuple(f, p) : f \in 0..MaxTally, p \in 0..MaxTally}
MemoPool ==
    UNION {{m \in [1..n -> UNION {{[k |-> k, v |-> v] : v \in MemoValues(k)} : k \in MemoKeys}] :
                \A i, j \in 1..n : i # j => m[i].k # m[j].k} : n \in 0..MaxMemo}

ReportSpecInit ==
    /\ doc \in MemoPool
    /\ rd = [structroot |-> "empty", memo |-> doc]
    /\ op = "init"
    /\ arg = NoneRef
    /\ ret = 0
    /\ exc = "none"
    /\ tbl = TblNew
    /\ hist = <<>>
    /\ h = HandlerNew(NoRoleMap, FALSE, FALSE)
    /\ stack = <<>>
    /\ walk = "fresh"
    /\ visited = {}

\* get_json, lines 57-105
GetJsonCall ==
    /\ walk \in {"fresh", "printed"}
    /\ walk' = "json"
    /\ op' = "get_json"
    /\ exc' = GetJson(rd.memo).exc
    /\ rd' = [rd EXCEPT !.memo = GetJson(rd.memo).memo]
    /\ ret' = IF GetJson(rd.memo).exc = "none" THEN GetJson(rd.memo).json ELSE 0
    /\ hist' = Append(hist, "get_json")
    /\ UNCHANGED <<doc, arg, tbl, h, stack, visited>>

\* print_report, lines 107-154: the same merge, and the lines go to the
\* standard output
PrintReportCall ==
    /\ walk = "fresh"
    /\ walk' = "printed"
    /\ op' = "print_report"
    /\ exc' = MergeLinks(rd.memo).exc
    /\ rd' = [rd EXCEPT !.memo = MergeLinks(rd.memo).memo]
    /\ ret' = 0
    /\ hist' = Append(hist, "print_report")
    /\ UNCHANGED <<doc, arg, tbl, h, stack, visited>>

ReportNext == GetJsonCall \/ PrintReportCall

SpecReport == ReportSpecInit /\ [][ReportNext]_vars

RECURSIVE SumFail(_, _)
SumFail(res, i) ==
    IF i > Len(res) THEN 0
    ELSE SumFail(res, i + 1)
         + (IF res[i].Status.isDict THEN res[i].Status.Fail
            ELSE IF res[i].Status.text = "Fail" THEN 1 ELSE 0)

RECURSIVE SumPass(_, _)
SumPass(res, i) ==
    IF i > Len(res) THEN 0
    ELSE SumPass(res, i + 1)
         + (IF res[i].Status.isDict THEN res[i].Status.Pass
            ELSE IF res[i].Status.text = "Pass" THEN 1 ELSE 0)

\* the tuple (f, p) that the memo doc holds for name
Held(name, f, p) ==
    \E i \in DOMAIN doc : doc[i].k = name /\ doc[i].v = MemoTuple(f, p)

\* C23: when the memo holds wcag.pdf.11 = (f11, p11) and wcag.pdf.13 =
\* (f13, p13), get_json and print_report remove both and store
\* wcag.pdf.sc244 = (min(f11, f13), max(p11, p13)); the summary of get_json
\* has Total = Fail + Pass, an integer 0 or 1 counting one and a tuple its
\* two counts; get_json after print_report returns what get_json alone
\* returns.
C23_ReportMerge ==
    /\ (op \in {"get_json", "print_report"}) =>
            \A f11, p11, f13, p13 \in 0..(MaxTally + 1) :
                (Held("wcag.pdf.11", f11, p11) /\ Held("wcag.pdf.13", f13, p13)) =>
                    /\ exc = "none"
                    /\ ~\E i \in DOMAIN rd.memo : rd.memo[i].k \in {"wcag.pdf.11", "wcag.pdf.13"}
                    /\ \E i \in DOMAIN rd.memo :
                        /\ rd.memo[i].k = "wcag.pdf.sc244"
                        /\ rd.memo[i].v = MemoTuple(IF f11 <= f13 THEN f11 ELSE f13,
                                                    IF p11 >= p13 THEN p11 ELSE p13)
    /\ (op = "get_json" /\ exc = "none") =>
            /\ ret.summary.Total = ret.summary.Fail + ret.summary.Pass
            /\ ret.summary.Fail = SumFail(ret.result, 1)
            /\ ret.summary.Pass = SumPass(ret.result, 1)
            /\ Len(ret.result) = Len(rd.memo)
            /\ ret = GetJson(doc).json

\* get_json has returned after print_report, on a memo that held the two
\* link entries with different counts, a table entry and the permissions
C23_Witness ==
    /\ hist = <<"print_report", "get_json">>
    /\ exc = "none"
    /\ \E f11, p11, f13, p13 \in 0..MaxTally :
        /\ Held("wcag.pdf.11", f11, p11) /\ Held("wcag.pdf.13", f13, p13)
        /\ f11 < f13 /\ p11 > p13
    /\ \E i \in DOMAIN doc : doc[i].k = "egovmon.pdf.05"
    /\ ret.summary.Total > 1

(***************************************************************************)
(* The entry point, pdfAWAM.py lines 57-183                                *)
(*                                                                         *)
(* A call is its flags and the step of the try block, if any, at which an  *)
(* exception is raised, with the class and the message of the exception.   *)
(* A message is the sequence of the parts it is put together from.         *)
(***************************************************************************)
\* The classes of the exceptions and their base classes
ExcParent ==
    [c \in {"DecryptionFailedException", "NotImplementedError", "RuntimeError",
            "PdfReadError", "PdfStreamError", "KeyError", "LookupError",
            "PdfStructureError", "RecursionError"} |->
        CASE c = "DecryptionFailedException" -> "Exception"
          [] c = "NotImplementedError" -> "RuntimeError"
          [] c = "RecursionError" -> "RuntimeError"
          [] c = "RuntimeError" -> "Exception"
          [] c = "PdfReadError" -> "Exception"
          [] c = "PdfStreamError" -> "PdfReadError"
          [] c = "KeyError" -> "LookupError"
          [] c = "LookupError" -> "Exception"
          [] c = "PdfStructureError" -> "Exception"]

RECURSIVE IsInstance(_, _)
\* isinstance of an exception of class c, as an except clause asks it
IsInstance(c, base) ==
    IF c = base THEN TRUE
    ELSE IF c \in DOMAIN ExcParent THEN IsInstance(ExcParent[c], base)
    ELSE FALSE

\* The steps of the try block, lines 71-123, in their order
TrySteps(developer, verbose) ==
    <<"PdfReaderWrapper", "fix_indirect_object_xref">>
    \o (IF developer THEN <<"init", "process_awam", "devdict">>
        ELSE (IF verbose THEN <<"summary">> ELSE <<>>) \o <<"run_all_tests">>)

\* A variant of the except clauses without the last one
ExceptClauses_NoCatchAll(cls, msg) ==
    IF IsInstance(cls, "DecryptionFailedException")
    THEN [exc |-> "PdfWamProcessingError", msg |-> <<"Document Decryption failed">>]
    ELSE IF IsInstance(cls, "NotImplementedError")
    THEN [exc |-> "PdfWamProcessingError", msg |-> <<"Unsupported decryption algorithm.">>]
    ELSE IF IsInstance(cls, "PdfReadError")
    THEN [exc |-> "PdfWamProcessingError",
          msg |-> <<"Error, cannot read PDF file: ", msg>>]
    ELSE [exc |-> cls, msg |-> <<msg>>]

\* The except clauses, lines 124-159: the exception that leaves the call
ExceptClauses(cls, msg) ==
    IF IsInstance(cls, "DecryptionFailedException")
    THEN [exc |-> "PdfWamProcessingError", msg |-> <<"Document Decryption failed">>]
    ELSE IF IsInstance(cls, "NotImplementedError")
    THEN [exc |-> "PdfWamProcessingError", msg |-> <<"Unsupported decryption algorithm.">>]
    ELSE IF IsInstance(cls, "PdfReadError")
    THEN [exc |-> "PdfWamProcessingError",
          msg |-> <<"Error, cannot read PDF file: ", msg>>]
    ELSE IF IsInstance(cls, "Exception")
    THEN [exc |-> "PdfWamProcessingError",
          msg |-> <<"Unguarded error => [", cls, " : ", msg,
                    " ] <=. Please send feedback to developers.">>]
    ELSE [exc |-> cls, msg |-> <<msg>>]

\* the step at which the call raises is one of the steps it takes
RaisesInTry(c) ==
    c.raises /\ \E i \in DOMAIN TrySteps(c.developer, c.verbose) :
                    TrySteps(c.developer, c.verbose)[i] = c.step

\* extractAWAMIndicators, lines 57-183: [exc, msg, returns]
ExtractAWAMIndicators(c) ==
    IF RaisesInTry(c)
    THEN [exc |-> ExceptClauses(c.cls, c.msg).exc,
          msg |-> ExceptClauses(c.cls, c.msg).msg,
          returns |-> "nothing"]
    ELSE [exc |-> "none", msg |-> <<>>,
          returns |-> IF c.developer THEN "devdict"
                      ELSE IF c.json_value THEN "json" ELSE "rmap"]

ExtractSpecInit ==
    /\ \E developer \in BOOLEAN, verbose \in BOOLEAN, json_value \in BOOLEAN,
          raises \in BOOLEAN, cls \in DOMAIN ExcParent, msg \in {"", "m"},
          step \in {"PdfReaderWrapper", "fix_indirect_object_xref", "init",
                    "process_awam", "devdict", "summary", "run_all_tests"} :
        /\ ~raises => (cls = "KeyError" /\ msg = "" /\ step = "PdfReaderWrapper")
        /\ doc = [developer |-> developer, verbose |-> verbose,
                  json_value |-> json_value, raises |-> raises,
                  cls |-> cls, msg |-> msg, step |-> step]
    /\ rd = ReaderNew("none", 0, EmptyFn)
    /\ op = "init"
    /\ arg = NoneRef
    /\ ret = [returns |-> "nothing", msg |-> <<>>]
    /\ exc = "none"
    /\ tbl = TblNew
    /\ hist = <<>>
    /\ h = HandlerNew(NoRoleMap, FALSE, FALSE)
    /\ stack = <<>>
    /\ walk = "call"
    /\ visited = {}

\* extractAWAMIndicators, lines 57-183
ExtractCall ==
    /\ walk = "call"
    /\ walk' = "done"
    /\ op' = "extractAWAMIndicators"
    /\ exc' = ExtractAWAMIndicators(doc).exc
    /\ ret' = [returns |-> ExtractAWAMIndicators(doc).returns,
               msg |-> ExtractAWAMIndicators(doc).msg]
    /\ UNCHANGED <<doc, rd, arg, tbl, hist, h, stack, visited>>

SpecExtract == ExtractSpecInit /\ [][ExtractCall]_vars

\* the class is caught by one of the three named except clauses
Classified(cls) ==
    \/ cls \in {"DecryptionFailedException", "NotImplementedError", "PdfReadError"}
    \/ cls = "PdfStreamError"

\* C24: every exception raised while extractAWAMIndicators constructs the
\* reader or runs the analysis leaves the call as PdfWamProcessingError; for
\* an exception of no named class the message carries the class name and
\* the message of the original; the call returns no result map.
C24_ProcessingError ==
    (op = "extractAWAMIndicators" /\ RaisesInTry(doc)) =>
        /\ exc = "PdfWamProcessingError"
        /\ ret.returns = "nothing"
        /\ ~Classified(doc.cls) =>
                \E i, j \in DOMAIN ret.msg :
                    i < j /\ ret.msg[i] = doc.cls /\ ret.msg[j] = doc.msg

\* A KeyError raised by run_all_tests has left the call as a processing
\* error whose message names it
C24_Witness ==
    /\ op = "extractAWAMIndicators"
    /\ doc.raises /\ doc.step = "run_all_tests" /\ ~doc.developer
    /\ doc.cls = "KeyError" /\ doc.msg = "m"
    /\ exc = "PdfWamProcessingError"
    /\ ret.msg = <<"Unguarded error => [", "KeyError", " : ", "m",
                   " ] <=. Please send feedback to developers.">>

(***************************************************************************)
(* Well-nested tables and the level of the validator                       *)
(***************************************************************************)
\* The adds so far are those of one table visited in document order: its
\* Table element, then row after row, each TR followed by its cells, all
\* elements different
WellNested ==
    /\ Len(hist) >= 1
    /\ HistTypes[1] = "Table"
    /\ \A i \in 2..Len(hist) : HistTypes[i] \in {"TR", "TH", "TD"}
    /\ Len(hist) >= 2 => HistTypes[2] = "TR"
    /\ \A i, j \in 1..Len(hist) : i # j => hist[i] # hist[j]

\* C25: for every well-nested table visited in document order (Table, then
\* per row a TR followed by its TH and TD cells in any mix and number) the
\* validator never becomes invalid; a row with a TH followed by a TD leaves
\* the table valid.
C25_WellNestedValid ==
    (op = "add" /\ WellNested) =>
        (tbl.invalid = 0 /\ exc # "PdfTblStructInvalidException")

\* The depth of a table tag in typedict: the number of parents above it
TagDepth(typ) ==
    IF typ = "Table" THEN 0
    ELSE IF typedict[typ] = "Table" THEN 1 ELSE 2

\* C26: in every state of a PdfTblStruct whose first add was a Table and
\* whose invalid flag is not set, level is the depth of the type of
\* current (0 for Table, 1 for TR, 2 for TH and TD); level is never
\* negative and never above 2.
C26_LevelIsDepth ==
    (Len(hist) >= 1 /\ HistTypes[1] = "Table" /\ tbl.invalid = 0) =>
        /\ tbl.current # NoneRef
        /\ TypeOf(tbl.current) \in TableTags
        /\ tbl.level = TagDepth(TypeOf(tbl.current))
        /\ tbl.level >= 0 /\ tbl.level <= 2

\* A second row has been opened after a cell of the first: the level went
\* 0, 1, 2 and back to 1
C26_Witness ==
    /\ op = "add" /\ ret = 1 /\ tbl.invalid = 0
    /\ HistTypes = <<"Table", "TR", "TH", "TR">>
    /\ TypeOf(tbl.current) = "TR"
    /\ tbl.level = 1

(***************************************************************************)
(* The two entries of a figure                                             *)
(***************************************************************************)
\* The statuses written under awamId by the call just made, whatever page
\* the location names
StatusesNow(awamId) ==
    IF awamId \notin DOMAIN h.resultMap THEN {}
    ELSE {h.resultMap[awamId].map[k] :
            k \in {l \in DOMAIN h.resultMap[awamId].map : l[2] = h.elementCount}}

\* C27: for every Figure element the status under EIAO.A.10.1.1.4.PDF.1.1
\* is 1 exactly when the element has /Alt and the status under
\* EIAO.A.10.1.1.4.PDF.2.1 is 1 exactly when it has /ActualText;
\* validateImages changes only the page part of the location.  Stated for
\* the first element a handler is given, single-bit images not ignored.
C27_FigureStatuses ==
    (op = "awamHandler" /\ exc = "none" /\ h.elementCount = 1
        /\ TypeOf(arg) = "Figure" /\ ~h.ignore1bitimgs) =>
        /\ StatusesNow(AltId) = {IF doc[arg].Alt THEN 1 ELSE 0}
        /\ StatusesNow(ActualTextId) = {IF doc[arg].ActualText THEN 1 ELSE 0}
        /\ ~h.validateImgs =>
                \A k \in DOMAIN h.resultMap[AltId].map : k[1] = 0

(***************************************************************************)
(* The memo entry of the images, pdfStructureMixin.py lines 356-363        *)
(***************************************************************************)
\* lines 357-363 on the memo, for the handler after the search
WcagPdf01(memo, hh) ==
    IF Len(hh.figureEls) > 0
    THEN Put(memo, "wcag.pdf.01",
             <<Cardinality(DOMAIN hh.failedImgs),
               Len(hh.figureEls) - Cardinality(DOMAIN hh.failedImgs)>>)
    ELSE memo

ImagesSpecInit ==
    /\ doc = FigurePool
    /\ op = "new"
    /\ arg = NoneRef
    /\ ret = 0
    /\ exc = "none"
    /\ tbl = TblNew
    /\ hist = <<>>
    /\ \E roleMap \in {NoRoleMap, RoleMap("Sect" :> "Figure")},
          validateImages \in BOOLEAN, ignoreSingleBitImgs \in BOOLEAN :
        h = HandlerNew(roleMap, validateImages, ignoreSingleBitImgs)
    /\ rd = [structroot |-> "dict", memo |-> EmptyFn]
    /\ stack = <<>>
    /\ walk = "search"
    /\ visited = {}

\* The search hands an element of the tree to the handler
SearchHandles(e) == walk = "search" /\ Handle(e)

\* process_awam, lines 356-363, after the search
ProcessAwamImages ==
    /\ walk = "search"
    /\ walk' = "returned"
    /\ op' = "process_awam"
    /\ rd' = [rd EXCEPT !.memo = WcagPdf01(@, h)]
    /\ UNCHANGED <<doc, arg, ret, exc, tbl, hist, h, stack, visited>>

ImagesNext ==
    \/ \E e \in HandlerElems : SearchHandles(e)
    \/ ProcessAwamImages

SpecImages == ImagesSpecInit /\ [][ImagesNext]_vars

\* The figures the handler has registered, and those of them with neither
\* text
FiguresSeen == {h.figureEls[i] : i \in 1..Len(h.figureEls)}
FiguresWithoutText == {e \in FiguresSeen : ~doc[e].Alt /\ ~doc[e].ActualText}

\* C28: after process_awam on a document with at least one Figure,
\* memo['wcag.pdf.01'] is (fail, pass) with fail the number of different
\* Figure elements that have neither /Alt nor /ActualText and pass the
\* number of the other Figure elements; fail + pass is the number of
\* different Figure elements and pass is never negative.  Stated without a
\* role map.
C28_ImageCounts ==
    (op = "process_awam" /\ h.roleMap.isNone /\ FiguresSeen # {}) =>
        /\ "wcag.pdf.01" \in DOMAIN rd.memo
        /\ rd.memo["wcag.pdf.01"][1] = Cardinality(FiguresWithoutText)
        /\ rd.memo["wcag.pdf.01"][2] = Cardinality(FiguresSeen \ FiguresWithoutText)
        /\ rd.memo["wcag.pdf.01"][1] + rd.memo["wcag.pdf.01"][2] = Cardinality(FiguresSeen)
        /\ rd.memo["wcag.pdf.01"][2] >= 0

(***************************************************************************)
(* The links in the report: runAllTests, then get_json                     *)
(***************************************************************************)
\* The items of the memo of the links, a dictionary name -> (fail, succ)
MemoItems(memo) ==
    (IF "wcag.pdf.11" \in DOMAIN memo
     THEN <<[k |-> "wcag.pdf.11",
             v |-> MemoTuple(memo["wcag.pdf.11"][1], memo["wcag.pdf.11"][2])]>>
     ELSE <<>>)
    \o (IF "wcag.pdf.13" \in DOMAIN memo
        THEN <<[k |-> "wcag.pdf.13",
                v |-> MemoTuple(memo["wcag.pdf.13"][1], memo["wcag.pdf.13"][2])]>>
        ELSE <<>>)

\* and back: the dictionary of a sequence of items with tuples
MemoDict(items) ==
    [name \in {items[i].k : i \in DOMAIN items} |->
        <<MemoGet(items, name).fail, MemoGet(items, name).succ>>]

\* get_json, lines 57-105, after runAllTests
GetJsonLinks ==
    /\ walk = "done"
    /\ walk' = "json"
    /\ op' = "get_json"
    /\ exc' = GetJson(MemoItems(rd.memo)).exc
    /\ rd' = [rd EXCEPT !.memo = MemoDict(GetJson(MemoItems(@)).memo)]
    /\ ret' = IF GetJson(MemoItems(rd.memo)).exc = "none"
              THEN GetJson(MemoItems(rd.memo)).json.summary.Total ELSE 0
    /\ UNCHANGED <<doc, arg, tbl, hist, h, stack, visited>>

LinkReportNext == RegisterLink \/ RunTest1113 \/ GetJsonLinks

SpecLinkReport == LinksSpecInit /\ [][LinkReportNext]_vars

\* The link annotations with a URI action
UriLinks == {i \in 1..Len(LinkSeq) : doc[LinkSeq[i].annot].A = "URI"}

C30_ScannedDeterministic ==
    (op = "get_is_scanned") =>
        \A pg1 \in RandomPages, pg2 \in RandomPages :
            /\ GetIsScanned(rd, doc, pg1, pg2).exc = exc
            /\ (IF GetIsScanned(rd, doc, pg1, pg2).ret THEN 1 ELSE 0) = ret

====
